---------------------------- MODULE Spec2Model ----------------------------
(***************************************************************************)
(* State-machine model of the job domain logic of RoofingLeadApp:          *)
(*   - the add-lead screen (AddLeadScreen) and its file picker             *)
(*     (LeadImagePicker), which compose a draft and save a customer + job, *)
(*   - the job detail screen (JobDetailScreen), whose handlers change a    *)
(*     stored job's status, ledger and media,                              *)
(*   - the document store the screens write to (partial-field merges).     *)
(*                                                                         *)
(* Money is kept as an integer number of 10^-FracDigits currency units;    *)
(* text inputs are sequences of one-character strings.  Every await of a   *)
(* handler is a point where other handlers may run: a handler is split     *)
(* into the step up to its store write and the step in which the write     *)
(* lands (or fails) and the continuation runs.                             *)
(***************************************************************************)
EXTENDS Integers, Sequences, FiniteSets, TLC

(***************************************************************************)
(* Bounds of the model                                                     *)
(***************************************************************************)
MaxClock == 2        \* the clock (Date.now()) runs over 1..MaxClock
MaxReentryClock == 4 \* the clock where a job leaves and re-enters Completed
MaxPayments == 2     \* payments a ledger may hold
MaxJobs == 2         \* job documents the store may hold
MaxMedia == 1        \* media/file ids handed out (uploads started)
MaxDraftFiles == 2   \* files picked in a draft where uploads overlap
MaxStoredMedia == 5  \* media ids of a job that starts with stored media
MaxNewCustomers == 2 \* customer documents the draft may create
MaxPending == 2      \* operations of one screen awaiting the store
FracDigits == 1      \* decimal places kept of an amount

(***************************************************************************)
(* Program constants                                                       *)
(***************************************************************************)
STATUSES ==
  << "Lead", "Retail", "Inspected", "Claim Filed", "Met with Adjuster",
     "Partial Approval", "Full Approval", "Production", "Pending Payment",
     "Delinquent Payment", "Completed" >>

STATUS_OPTIONS == STATUSES

StatusSet == { STATUSES[i] : i \in 1..Len(STATUSES) }

CATEGORIES == << "Inspection", "Install", "Documents" >>

CategorySet == { CATEGORIES[i] : i \in 1..Len(CATEGORIES) }

PDF_CATEGORIES == { "Documents" }

FileTypes == { "inspection", "install", "document" }

PhotoFields == { "inspectionPhotos", "installPhotos" }

(***************************************************************************)
(* Text and numbers                                                        *)
(***************************************************************************)
Digits == { "0", "1", "2", "3", "4", "5", "6", "7", "8", "9" }

DigitVal(c) ==
  CASE c = "0" -> 0 [] c = "1" -> 1 [] c = "2" -> 2 [] c = "3" -> 3
    [] c = "4" -> 4 [] c = "5" -> 5 [] c = "6" -> 6 [] c = "7" -> 7
    [] c = "8" -> 8 [] c = "9" -> 9

DigitChar(d) ==
  CASE d = 0 -> "0" [] d = 1 -> "1" [] d = 2 -> "2" [] d = 3 -> "3"
    [] d = 4 -> "4" [] d = 5 -> "5" [] d = 6 -> "6" [] d = 7 -> "7"
    [] d = 8 -> "8" [] d = 9 -> "9"

RECURSIVE Pow10(_)
Pow10(n) == IF n = 0 THEN 1 ELSE 10 * Pow10(n - 1)

Scale == Pow10(FracDigits)

\* variant of the replace that keeps the minus sign as well
StripKeepingSign(t) == SelectSeq(t, LAMBDA c : c \in Digits \cup {".", "-"})

\* text.replace(/[^0-9.]/g, ''): every character but digits and dots is dropped
StripNonNumeric(t) == SelectSeq(t, LAMBDA c : c \in Digits \cup {"."})

\* the length of the longest prefix of t made of digits only
RECURSIVE DigitRun(_)
DigitRun(t) ==
  IF t = <<>> \/ Head(t) \notin Digits THEN 0 ELSE 1 + DigitRun(Tail(t))

\* the value of a digit string, most significant digit first
RECURSIVE DigitsValue(_)
DigitsValue(t) ==
  IF t = <<>> THEN 0
  ELSE 10 * DigitsValue(SubSeq(t, 1, Len(t) - 1)) + DigitVal(t[Len(t)])

\* the value, in 10^-FracDigits units, of the fraction digits f (digits past
\* FracDigits are cut off; the inputs of the model have none)
FractionValue(f) ==
  LET kept == SubSeq(f, 1, IF Len(f) < FracDigits THEN Len(f) ELSE FracDigits)
  IN  DigitsValue(kept) * Pow10(FracDigits - Len(kept))

\* parseFloat on a text of digits, dots and signs: the longest prefix of the
\* form [ "-" ] digits [ "." digits ] or [ "-" ] "." digits; <<>> stands for
\* NaN, <<v>> for v
ParseFloat(t) ==
  LET neg  == t # <<>> /\ Head(t) = "-"
      u    == IF neg THEN Tail(t) ELSE t
      n    == DigitRun(u)
      rest == SubSeq(u, n + 1, Len(u))
      dot  == rest # <<>> /\ Head(rest) = "."
      frac == IF dot THEN SubSeq(rest, 2, 1 + DigitRun(Tail(rest))) ELSE <<>>
      v    == DigitsValue(SubSeq(u, 1, n)) * Scale + FractionValue(frac)
  IN  IF n = 0 /\ frac = <<>> THEN <<>>
      ELSE << IF neg THEN 0 - v ELSE v >>

\* parseFloat(text.replace(/[^0-9.]/g, ''))
ParseAmount(t) == ParseFloat(StripNonNumeric(t))

\* x || 0 for a parse result: NaN and 0 both give 0
OrZero(p) == IF p = <<>> THEN 0 ELSE p[1]

\* !amount || amount <= 0 for a parse result
IsInvalidAmount(p) == p = <<>> \/ p[1] = 0 \/ p[1] <= 0

RECURSIVE NatDigits(_)
NatDigits(n) ==
  IF n < 10 THEN << DigitChar(n) >>
  ELSE NatDigits(n \div 10) \o << DigitChar(n % 10) >>

\* the k fraction digits of r (0 <= r < 10^k), trailing zeros dropped
RECURSIVE FracDigitsOf(_, _)
FracDigitsOf(r, k) ==
  IF r = 0 \/ k = 0 THEN <<>>
  ELSE << DigitChar(r \div Pow10(k - 1)) >> \o FracDigitsOf(r % Pow10(k - 1), k - 1)

\* String(n) for an amount of magnitude below 1e21 and not below 1e-6
ToText(n) ==
  LET m == IF n < 0 THEN 0 - n ELSE n
  IN  (IF n < 0 THEN << "-" >> ELSE <<>>)
        \o NatDigits(m \div Scale)
        \o (IF m % Scale = 0 THEN <<>>
            ELSE << "." >> \o FracDigitsOf(m % Scale, FracDigits))

RECURSIVE SumSeq(_)
SumSeq(s) == IF s = <<>> THEN 0 ELSE Head(s) + SumSeq(Tail(s))

\* variant of the filter that drops the first element whatever the index
RemoveHead(s, i) == Tail(s)

\* array.filter((_, idx) => idx !== i), positions counted from 1
RemoveAt(s, i) == [ k \in 1..(Len(s) - 1) |-> IF k < i THEN s[k] ELSE s[k + 1] ]


(***************************************************************************)
(* Records                                                                 *)
(***************************************************************************)
NoPermissions == [ c \in {} |-> FALSE ]

\* A job document / the job snapshot of a screen.  id = 0 stands for "no
\* document" in the store and for null in a screen.  A field the writer left
\* out holds the value every reader substitutes for it (x || 0, x ?? [],
\* !!x); completedAt is <<>> for null or absent and <<t>> for a timestamp.
NullJob ==
  [ id |-> 0, customerId |-> 0, status |-> "Lead", completedAt |-> <<>>,
    contractAmount |-> 0, depositAmount |-> 0, isDepositPaid |-> FALSE,
    payments |-> <<>>, balance |-> 0, files |-> <<>>,
    inspectionPhotos |-> <<>>, installPhotos |-> <<>>,
    folderPermissions |-> NoPermissions ]

JobFields == DOMAIN NullJob

\* { ...rec, ...vals } restricted to the fields a partial write names
MergeFields(rec, vals, fields) ==
  [ f \in JobFields |-> IF f \in fields THEN vals[f] ELSE rec[f] ]

\* the customers of the store before the session starts, in store order
InitialCustomers ==
  << [ id |-> 1, firstName |-> << "A", "l" >>, lastName |-> << "B", "o" >>,
       address |-> "addr" ],
     [ id |-> 2, firstName |-> << "B", "o" >>, lastName |-> <<>>,
       address |-> "addr" ] >>

NumInitialCustomers == Len(InitialCustomers)

\* an operation of a job screen that awaits the store
\*   s      the screen, id the document the handler's closure targets
\*   fields the top-level fields of the partial write, taken from vals
\*   add    the media appended by arrayUnion to the field addTo
\*   at     the clock when the handler was called
\*   seq    for the write of a modal's Save, its place among the writes of
\*          its kind the screen has under way (1: the oldest)
NoOp ==
  [ s |-> 0, op |-> "none", id |-> 0, fields |-> {}, vals |-> NullJob,
    addTo |-> "none", add |-> <<>>, at |-> 0, seq |-> 0 ]

\* the state of AddLeadScreen
InitLead ==
  [ isSaving |-> FALSE, selectedExistingCustomer |-> 0, name |-> <<>>,
    address |-> "", status |-> "Lead", contractAmount |-> <<>>,
    depositAmount |-> <<>>, depositPaid |-> FALSE, payments |-> <<>>,
    newPayment |-> <<>>, files |-> <<>>, folderPermissions |-> NoPermissions,
    alert |-> "none", done |-> FALSE ]

\* the state of LeadImagePicker
InitPicker ==
  [ files |-> <<>>,
    folderPermissions |-> [ c \in CategorySet |-> FALSE ],
    uploading |-> "null" ]

\* the fields of editForm the ledger reads
NoEditForm == [ contractAmount |-> 0, depositAmount |-> 0 ]

\* null for a JobMedia and for a JobFile
NoMedia == [ id |-> 0, url |-> 0, category |-> "inspection", shared |-> FALSE ]

NoFile ==
  [ id |-> 0, url |-> 0, type |-> "inspection", isSharedWithCustomer |-> FALSE,
    name |-> "" ]

\* no alert of handleDeletePhoto is up
NoDeleting == [ media |-> NoMedia, list |-> <<>>, id |-> 0 ]

\* the state of one JobDetailScreen; viewingMediaIdx counts from 1 and is 0
\* for null
InitScreen ==
  [ id |-> 0, job |-> NullJob, isLoading |-> TRUE, isUpdating |-> FALSE,
    isUploading |-> FALSE, isCreatingJob |-> FALSE,
    isEditingDetails |-> FALSE, editForm |-> NoEditForm,
    isAddingPayment |-> FALSE, newPaymentAmount |-> <<>>, alert |-> "none",
    viewingMediaIdx |-> 0, viewingMediaList |-> <<>>,
    selectedMedia |-> NoMedia, editingMediaShared |-> FALSE,
    selectedFile |-> NoFile, editingType |-> "inspection",
    editingShared |-> FALSE, deleting |-> NoDeleting ]

Sessions == { 1, 2 }

(***************************************************************************)
(* State                                                                   *)
(***************************************************************************)
VARIABLES
  now,        \* the clock read by Date.now() and new Date()
  jobs,       \* collection 'jobs': document id -> document (NullJob: none)
  customers,  \* collection 'customers', in store order
  nextJob,    \* job document ids handed out by doc(collection(db, 'jobs'))
  nextCustomer, \* customer document ids handed out
  nextMedia,  \* media ids handed out
  lead,       \* AddLeadScreen
  picker,     \* LeadImagePicker
  leadOps,    \* operations of the add-lead screen awaiting storage/store
  scr,        \* JobDetailScreen, one per session
  pend,       \* operations of the job screens awaiting the store
  blobs,      \* storage: the media ids whose object is stored
  firstCompletedAt
              \* history: per job, the completedAt its first entry into
              \* Completed through updateJobStatus stored (<<>> before),
              \* kept by RecordedStatusDone only

vars ==
  << now, jobs, customers, nextJob, nextCustomer, nextMedia, lead, picker,
     leadOps, scr, pend, blobs,
     firstCompletedAt >>

storeVars == << jobs, customers, nextJob, nextCustomer >>
leadVars == << lead, picker, leadOps >>
screenVars == << scr, pend >>

Init ==
  /\ now = 1
  /\ jobs = [ j \in 1..MaxJobs |-> NullJob ]
  /\ customers = InitialCustomers
  /\ nextJob = 1
  /\ nextCustomer = NumInitialCustomers + 1
  /\ nextMedia = 1
  /\ lead = InitLead
  /\ picker = InitPicker
  /\ leadOps = {}
  /\ scr = [ s \in Sessions |-> InitScreen ]
  /\ pend = {}
  /\ firstCompletedAt = [ j \in 1..MaxJobs |-> <<>> ]
  /\ blobs = {}

\* time passes, up to a limit of the model
TickTo(limit) ==
  /\ now < limit
  /\ now' = now + 1
  /\ UNCHANGED << storeVars, nextMedia, leadVars, screenVars, blobs,
                  firstCompletedAt >>

Tick == TickTo(MaxClock)

(***************************************************************************)
(* Inputs: the texts a user types                                          *)
(***************************************************************************)
\* the statuses picked in the status modal and pressed on the status chips
StatusChoices == { "Lead", "Completed", "Production" }

NameTexts ==
  { <<>>, << " " >>, << "b" >>, << "a", "l" >>, << "Z" >>, << "O" >> }

AddressTexts == { "", "addr" }

ContractTexts == { << "1", "0" >> }

DepositTexts == { << "5" >> }

PaymentTexts == { <<>>, << "0" >>, << "-", "5" >>, << "2", ".", "5" >> }

(***************************************************************************)
(* AddLeadScreen                                                           *)
(***************************************************************************)
ToLowerCase(t) ==
  [ i \in 1..Len(t) |->
      CASE t[i] = "A" -> "a" [] t[i] = "B" -> "b" [] t[i] = "Z" -> "z"
        [] t[i] = "O" -> "o" [] OTHER -> t[i] ]

RECURSIVE TrimStart(_)
TrimStart(t) ==
  IF t # <<>> /\ Head(t) = " " THEN TrimStart(Tail(t)) ELSE t

RECURSIVE TrimEnd(_)
TrimEnd(t) ==
  IF t # <<>> /\ t[Len(t)] = " " THEN TrimEnd(SubSeq(t, 1, Len(t) - 1)) ELSE t

Trim(t) == TrimEnd(TrimStart(t))

\* variant of the match that looks at the start of the name only
StartsWith(hay, needle) ==
  Len(needle) <= Len(hay) /\ SubSeq(hay, 1, Len(needle)) = needle

\* hay.includes(needle)
Includes(hay, needle) ==
  \E i \in 1..(Len(hay) + 1) :
    /\ i + Len(needle) - 1 <= Len(hay)
    /\ SubSeq(hay, i, i + Len(needle) - 1) = needle

\* `${c.firstName} ${c.lastName}`
FullName(c) == c.firstName \o << " " >> \o c.lastName

\* the length of the first run of non-blank characters
RECURSIVE WordRun(_)
WordRun(t) ==
  IF t = <<>> \/ Head(t) = " " THEN 0 ELSE 1 + WordRun(Tail(t))

\* name.trim().split(/\s+/)[0] || ''
FirstNameOf(name) ==
  LET t == Trim(name) IN SubSeq(t, 1, WordRun(t))

\* the following parts joined by one blank each
RECURSIVE JoinWords(_)
JoinWords(t) ==
  LET u == TrimStart(t)
      n == WordRun(u)
      r == TrimStart(SubSeq(u, n + 1, Len(u)))
  IN  IF u = <<>> THEN <<>>
      ELSE SubSeq(u, 1, n) \o (IF r = <<>> THEN <<>> ELSE << " " >> \o JoinWords(r))

\* nameParts.slice(1).join(' ') || ''
LastNameOf(name) ==
  LET t == Trim(name) IN JoinWords(SubSeq(t, WordRun(t) + 1, Len(t)))

isFormValid == Len(Trim(lead.name)) > 0 /\ lead.address # ""

\* the derived list filteredCustomers, as the filter effect leaves it
FilteredCustomers ==
  IF Trim(lead.name) = <<>> \/ lead.selectedExistingCustomer # 0 THEN <<>>
  ELSE SelectSeq(customers,
         LAMBDA c : Includes(ToLowerCase(FullName(c)), ToLowerCase(lead.name)))

\* parsedContract, parsedDeposit, paymentsTotal and balance of a draft l
ParsedContractOf(l) == OrZero(ParseAmount(l.contractAmount))
ParsedDepositOf(l) == OrZero(ParseAmount(l.depositAmount))
PaymentsTotalOf(l) == SumSeq(l.payments)
BalanceOfDraft(l) ==
  ParsedContractOf(l) - (IF l.depositPaid THEN ParsedDepositOf(l) ELSE 0)
    - PaymentsTotalOf(l)

parsedContract == ParsedContractOf(lead)
parsedDeposit == ParsedDepositOf(lead)
paymentsTotal == PaymentsTotalOf(lead)
balance == BalanceOfDraft(lead)

\* the draft can be edited: the success alert, whose OK leaves the screen,
\* is not up
LeadOpen == ~lead.done /\ lead.alert = "none"

LeadFrame == UNCHANGED << now, firstCompletedAt, blobs, storeVars, nextMedia,
                          picker, leadOps, screenVars >>

\* the button of an alert other than the success alert
DismissLeadAlert ==
  /\ ~lead.done /\ lead.alert # "none"
  /\ lead' = [ lead EXCEPT !.alert = "none" ]
  /\ LeadFrame

SetName(text) ==
  /\ LeadOpen
  /\ lead' = [ lead EXCEPT !.name = text, !.selectedExistingCustomer = 0 ]
  /\ LeadFrame

SetAddress(text) ==
  /\ LeadOpen
  /\ lead' = [ lead EXCEPT !.address = text ]
  /\ LeadFrame

handleSelectCustomer(customer) ==
  /\ LeadOpen
  /\ lead' = [ lead EXCEPT !.selectedExistingCustomer = customer.id,
                           !.name = Trim(FullName(customer)),
                           !.address = customer.address ]
  /\ LeadFrame

handleClearCustomerSelection ==
  /\ LeadOpen
  /\ lead.selectedExistingCustomer # 0
  /\ lead' = [ lead EXCEPT !.selectedExistingCustomer = 0, !.name = <<>>,
                           !.address = "" ]
  /\ LeadFrame

SetStatus(opt) ==
  /\ LeadOpen
  /\ lead' = [ lead EXCEPT !.status = opt ]
  /\ LeadFrame

SetContractAmount(text) ==
  /\ LeadOpen
  /\ lead' = [ lead EXCEPT !.contractAmount = text ]
  /\ LeadFrame

SetDepositAmount(text) ==
  /\ LeadOpen
  /\ lead' = [ lead EXCEPT !.depositAmount = text ]
  /\ LeadFrame

\* formatDollarOnBlur: '$' + the cleaned text, when there is any
DollarText(value) ==
  IF value = <<>> \/ StripNonNumeric(value) = <<>> THEN value
  ELSE << "$" >> \o StripNonNumeric(value)

formatDollarOnBlur ==
  /\ LeadOpen
  /\ \/ lead' = [ lead EXCEPT !.contractAmount = DollarText(lead.contractAmount) ]
     \/ lead' = [ lead EXCEPT !.depositAmount = DollarText(lead.depositAmount) ]
  /\ LeadFrame

SetDepositPaid(value) ==
  /\ LeadOpen
  /\ lead' = [ lead EXCEPT !.depositPaid = value ]
  /\ LeadFrame

SetNewPayment(text) ==
  /\ LeadOpen
  /\ lead' = [ lead EXCEPT !.newPayment = text ]
  /\ LeadFrame

\* the payments list after addPayment: unchanged on an invalid amount
LeadPaymentsAfterAdd ==
  LET amount == ParseAmount(lead.newPayment)
  IN  IF IsInvalidAmount(amount) THEN lead.payments
      ELSE Append(lead.payments, amount[1])

addPayment ==
  /\ LeadOpen
  /\ Len(lead.payments) < MaxPayments
  /\ lead' =
       [ lead EXCEPT !.payments = LeadPaymentsAfterAdd,
                     !.newPayment =
                        IF IsInvalidAmount(ParseAmount(lead.newPayment))
                        THEN lead.newPayment ELSE <<>> ]
  /\ LeadFrame

RemovePayment(i) ==
  /\ LeadOpen
  /\ i \in 1..Len(lead.payments)
  /\ lead' = [ lead EXCEPT !.payments = RemoveAt(lead.payments, i) ]
  /\ LeadFrame

(***************************************************************************)
(* LeadImagePicker                                                         *)
(***************************************************************************)
\* an operation of the add-lead screen awaiting storage or the store
\*   kind "upload": files and folderPermissions are the values the closure
\*        of pickAndUpload / pickDocument captured, file the LeadFile it
\*        builds except for isPublic
\*   kind "save": phase "customer" or "job", customer and job the documents
\*        handleSave built (customer.id = 0: an existing customer is linked)
LeadFileOf(fid, ftype, category) ==
  [ id |-> fid, name |-> "name", type |-> ftype, category |-> category,
    isPublic |-> FALSE ]

NoCustomer == [ id |-> 0, firstName |-> <<>>, lastName |-> <<>>, address |-> "" ]

UploadOp(file, files, perms) ==
  [ kind |-> "upload", phase |-> "upload", file |-> file, files |-> files,
    folderPermissions |-> perms, customer |-> NoCustomer, job |-> NullJob ]

SaveOp(phase, customer, job) ==
  [ kind |-> "save", phase |-> phase, file |-> LeadFileOf(0, "image", "Inspection"),
    files |-> <<>>, folderPermissions |-> NoPermissions,
    customer |-> customer, job |-> job ]

\* onUpdate of AddLeadScreen: setFiles(updatedFiles); setFolderPermissions(updatedPerms)
OnUpdate(l, updatedFiles, updatedPerms) ==
  [ l EXCEPT !.files = updatedFiles, !.folderPermissions = updatedPerms ]

PickerFrame == UNCHANGED << now, firstCompletedAt, blobs, storeVars, nextMedia,
                            leadOps, screenVars >>

\* a folder switch that also sets the flag of the files of its folder
toggleFolderAndFiles(cat, value) ==
  /\ LeadOpen
  /\ LET next == [ c \in DOMAIN picker.folderPermissions \cup {cat} |->
                     IF c = cat THEN value ELSE picker.folderPermissions[c] ]
         files == [ i \in 1..Len(picker.files) |->
                      IF picker.files[i].category = cat
                      THEN [ picker.files[i] EXCEPT !.isPublic = value ]
                      ELSE picker.files[i] ]
     IN  /\ picker' = [ picker EXCEPT !.folderPermissions = next, !.files = files ]
         /\ lead' = [ lead EXCEPT !.files = files, !.folderPermissions = next ]
  /\ UNCHANGED << now, firstCompletedAt, blobs, storeVars, nextMedia, leadOps,
                  screenVars >>

toggleFolderPermission(cat, value) ==
  /\ LeadOpen
  /\ LET next == [ c \in DOMAIN picker.folderPermissions \cup {cat} |->
                     IF c = cat THEN value ELSE picker.folderPermissions[c] ]
     IN  /\ picker' = [ picker EXCEPT !.folderPermissions = next ]
         /\ lead' = OnUpdate(lead, picker.files, next)
  /\ PickerFrame

\* files.map((f) => f.id === fileId ? { ...f, isPublic: value } : f)
WithPublic(files, fileId, value) ==
  [ i \in 1..Len(files) |->
      IF files[i].id = fileId THEN [ files[i] EXCEPT !.isPublic = value ]
      ELSE files[i] ]

toggleFilePublic(fileId, value) ==
  /\ LeadOpen
  /\ LET next == WithPublic(picker.files, fileId, value)
     IN  /\ picker' = [ picker EXCEPT !.files = next ]
         /\ lead' = OnUpdate(lead, next, picker.folderPermissions)
  /\ PickerFrame

deleteFile(fileId) ==
  /\ LeadOpen
  /\ LET next == SelectSeq(picker.files, LAMBDA f : f.id # fileId)
     IN  /\ picker' = [ picker EXCEPT !.files = next ]
         /\ lead' = OnUpdate(lead, next, picker.folderPermissions)
  /\ PickerFrame

\* the part of pickAndUpload / pickDocument up to the upload: the button of
\* the category is enabled, a file was picked, its id is `file-${Date.now()}`
\* (the picks of one user are at distinct times: a fresh id)
StartUploadTo(limit, category, ftype) ==
  /\ LeadOpen
  /\ picker.uploading # category
  /\ nextMedia <= limit
  /\ nextMedia' = nextMedia + 1
  /\ picker' = [ picker EXCEPT !.uploading = category ]
  /\ leadOps' = leadOps \cup
       { UploadOp(LeadFileOf(nextMedia, ftype, category), picker.files,
                  picker.folderPermissions) }
  /\ UNCHANGED << now, firstCompletedAt, blobs, storeVars, lead, screenVars >>

StartUpload(category, ftype) == StartUploadTo(MaxMedia, category, ftype)

pickAndUpload(category) == StartUpload(category, "image")

pickDocument(category) ==
  /\ category \in PDF_CATEGORIES
  /\ StartUpload(category, "pdf")

\* isPublic: folderPermissions[category] ?? false, read from the closure
DefaultShared(perms, category) ==
  IF category \in DOMAIN perms THEN perms[category] ELSE FALSE

\* the LeadFile an upload that completes adds
NewLeadFile(op) ==
  [ op.file EXCEPT !.isPublic = DefaultShared(op.folderPermissions, op.file.category) ]

\* the upload completes: nextFiles = [...files, newFile] over the closure's
\* files, onUpdate(nextFiles, folderPermissions) with the closure's defaults
UploadDone(op) ==
  /\ op \in leadOps /\ op.kind = "upload"
  /\ LET nextFiles == Append(op.files, NewLeadFile(op))
     IN  /\ picker' = [ picker EXCEPT !.files = nextFiles, !.uploading = "null" ]
         /\ lead' = OnUpdate(lead, nextFiles, op.folderPermissions)
  /\ leadOps' = leadOps \ {op}
  /\ blobs' = blobs \cup { op.file.id }
  /\ UNCHANGED << now, firstCompletedAt, storeVars, nextMedia, screenVars >>

\* the upload fails (the object is not stored) or getDownloadURL fails (it
\* is): the alert, and setUploading(null)
UploadFailed(op) ==
  /\ op \in leadOps /\ op.kind = "upload"
  /\ picker' = [ picker EXCEPT !.uploading = "null" ]
  /\ lead' = [ lead EXCEPT !.alert = "Upload Failed" ]
  /\ leadOps' = leadOps \ {op}
  /\ \E stored \in SUBSET { op.file.id } : blobs' = blobs \cup stored
  /\ UNCHANGED << now, firstCompletedAt, storeVars, nextMedia, screenVars >>

(***************************************************************************)
(* AddLeadScreen.handleSave                                                *)
(***************************************************************************)
categoryToType(cat) ==
  IF cat = "Install" THEN "install"
  ELSE IF cat = "Documents" THEN "document"
  ELSE "inspection"

\* LeadFile -> JobFile: id, url, type, isSharedWithCustomer, createdAt are
\* kept; the name is not copied.  url holds the job whose storage folder the
\* file is in (0: the folder of lead drafts)
JobFileOf(f) ==
  [ id |-> f.id, url |-> 0, type |-> categoryToType(f.category),
    isSharedWithCustomer |-> f.isPublic, name |-> "" ]

JobFilesOf(files) == [ i \in 1..Len(files) |-> JobFileOf(files[i]) ]

jobFiles == JobFilesOf(lead.files)

\* the customer document handleSave builds when none is selected
newCustomer ==
  IF lead.selectedExistingCustomer # 0 THEN NoCustomer
  ELSE [ id |-> nextCustomer, firstName |-> FirstNameOf(lead.name),
         lastName |-> LastNameOf(lead.name), address |-> lead.address ]

\* a customer id that is the new reference whatever is selected
customerIdOfNewRef == nextCustomer

customerId ==
  IF lead.selectedExistingCustomer # 0 THEN lead.selectedExistingCustomer
  ELSE nextCustomer

\* the job document handleSave builds from the draft l for the job
\* reference jid and the customer cid (no completedAt among its fields)
NewJobOf(l, jid, cid) ==
  [ NullJob EXCEPT
      !.id = jid, !.customerId = cid, !.status = l.status,
      !.contractAmount = ParsedContractOf(l), !.depositAmount = ParsedDepositOf(l),
      !.isDepositPaid = l.depositPaid, !.payments = l.payments,
      !.balance = BalanceOfDraft(l), !.files = JobFilesOf(l.files),
      !.folderPermissions = l.folderPermissions ]

newJob == NewJobOf(lead, nextJob, customerId)

\* handleSave up to the first write (the geocoding changes no modelled field)
handleSave ==
  /\ LeadOpen
  /\ ~lead.isSaving /\ isFormValid
  /\ nextJob <= MaxJobs
  /\ nextCustomer <= NumInitialCustomers + MaxNewCustomers
  /\ lead' = [ lead EXCEPT !.isSaving = TRUE ]
  /\ nextJob' = nextJob + 1
  /\ nextCustomer' =
       IF lead.selectedExistingCustomer # 0 THEN nextCustomer ELSE nextCustomer + 1
  /\ leadOps' = leadOps \cup
       { SaveOp(IF newCustomer.id # 0 THEN "customer" ELSE "job",
                newCustomer, newJob) }
  /\ UNCHANGED << now, firstCompletedAt, blobs, jobs, customers, nextMedia, picker,
                  screenVars >>

\* await setDoc(customerRef, newCustomer)
SaveCustomerWrite(op, ok) ==
  /\ op \in leadOps /\ op.kind = "save" /\ op.phase = "customer"
  /\ IF ok
     THEN /\ customers' = Append(customers, op.customer)
          /\ leadOps' = (leadOps \ {op}) \cup { [ op EXCEPT !.phase = "job" ] }
          /\ lead' = lead
     ELSE /\ customers' = customers
          /\ leadOps' = leadOps \ {op}
          /\ lead' = [ lead EXCEPT !.isSaving = FALSE, !.alert = "SAVE FAILED" ]
  /\ UNCHANGED << now, firstCompletedAt, blobs, jobs, nextJob, nextCustomer,
                  nextMedia, picker, screenVars >>

\* await setDoc(jobRef, newJob).  On success the alert, whose OK leaves the
\* screen: AddLeadScreen and LeadImagePicker are unmounted, their state is
\* gone and the uploads still in flight set no state.  On failure the alert
\* and finally setIsSaving(false).
SaveJobWrite(op, ok) ==
  /\ op \in leadOps /\ op.kind = "save" /\ op.phase = "job"
  /\ IF ok
     THEN /\ jobs' = [ jobs EXCEPT ![op.job.id] = op.job ]
          /\ lead' = [ InitLead EXCEPT !.alert = "Success", !.done = TRUE ]
          /\ picker' = InitPicker
          /\ leadOps' = {}
     ELSE /\ jobs' = jobs
          /\ lead' = [ lead EXCEPT !.isSaving = FALSE, !.alert = "SAVE FAILED" ]
          /\ picker' = picker
          /\ leadOps' = leadOps \ {op}
  /\ UNCHANGED << now, firstCompletedAt, blobs, customers, nextJob, nextCustomer,
                  nextMedia, screenVars >>

\* a later visit mounts a new AddLeadScreen
NewDraft ==
  /\ lead.done
  /\ lead' = InitLead
  /\ UNCHANGED << now, firstCompletedAt, blobs, storeVars, nextMedia, picker,
                  leadOps, screenVars >>

(***************************************************************************)
(* JobDetailScreen                                                         *)
(***************************************************************************)
Op(s, op, id, fields, vals, addTo, add) ==
  [ s |-> s, op |-> op, id |-> id, fields |-> fields, vals |-> vals,
    addTo |-> addTo, add |-> add, at |-> now, seq |-> 0 ]

FetchOp(s, id) == [ NoOp EXCEPT !.s = s, !.op = "fetch", !.id = id ]

PendingOf(s) == { o \in pend : o.s = s }

CanStart(s) == Cardinality(PendingOf(s)) < MaxPending

\* the screen shows the job: not the spinner, not "Job not found."
Shown(s) ==
  /\ scr[s].id # 0 /\ ~scr[s].isLoading /\ scr[s].job.id # 0
  /\ scr[s].alert = "none"

\* the screen under the modals can be touched
MainUi(s) ==
  /\ Shown(s) /\ ~scr[s].isEditingDetails /\ ~scr[s].isAddingPayment
  /\ scr[s].viewingMediaIdx = 0 /\ scr[s].selectedFile = NoFile

\* customerJobs: the jobs of the snapshot's customer (realtime query)
customerJobs(s) ==
  { j \in 1..MaxJobs :
      jobs[j].id # 0 /\ jobs[j].customerId = scr[s].job.customerId }

ScreenFrame == UNCHANGED << now, firstCompletedAt, blobs, storeVars, nextMedia,
                            leadVars >>

\* the button of an alert
DismissAlert(s) ==
  /\ scr[s].alert # "none"
  /\ scr' = [ scr EXCEPT ![s].alert = "none", ![s].deleting = NoDeleting ]
  /\ UNCHANGED << pend >> /\ ScreenFrame

\* the screen is mounted on the route of a stored job: the [id] effect runs
OpenJob(s, j) ==
  /\ scr[s].id = 0
  /\ jobs[j].id # 0
  /\ scr' = [ scr EXCEPT ![s] = [ InitScreen EXCEPT !.id = j ] ]
  /\ pend' = pend \cup { FetchOp(s, j) }
  /\ ScreenFrame

\* fetchData after its getDoc: setJob(jobData) when the document exists;
\* finally setIsLoading(false)
FetchDone(op, ok) ==
  /\ op \in pend /\ op.op = "fetch"
  /\ scr' = [ scr EXCEPT
       ![op.s].job = IF ok /\ jobs[op.id].id # 0 THEN jobs[op.id] ELSE @,
       ![op.s].isLoading = FALSE ]
  /\ pend' = pend \ {op}
  /\ ScreenFrame

\* a project pill of another job of the customer: router.setParams({ id })
\* changes the route id, and the [id] effect fetches
SwitchJob(s, j) ==
  /\ MainUi(s)
  /\ j \in customerJobs(s) /\ j # scr[s].id
  /\ CanStart(s)
  /\ scr' = [ scr EXCEPT ![s].id = j ]
  /\ pend' = pend \cup { FetchOp(s, j) }
  /\ ScreenFrame

\* newJobPayload of handleCreateAdditionalJob (id: the addDoc reference)
newJobPayload(job) ==
  [ NullJob EXCEPT !.id = nextJob, !.customerId = job.customerId,
                   !.status = "Lead", !.contractAmount = 0, !.balance = 0 ]

handleCreateAdditionalJob(s) ==
  /\ MainUi(s)
  /\ customerJobs(s) # {}
  /\ ~scr[s].isCreatingJob
  /\ nextJob <= MaxJobs /\ CanStart(s)
  /\ nextJob' = nextJob + 1
  /\ scr' = [ scr EXCEPT ![s].isCreatingJob = TRUE ]
  /\ pend' = pend \cup
       { Op(s, "addjob", nextJob, JobFields, newJobPayload(scr[s].job), "none", <<>>) }
  /\ UNCHANGED << now, firstCompletedAt, blobs, jobs, customers, nextCustomer,
                  nextMedia, leadVars >>

\* addDoc lands, router.setParams({ id: docRef.id }) and the [id] effect; or
\* it fails; finally setIsCreatingJob(false)
AddJobDone(op, ok) ==
  /\ op \in pend /\ op.op = "addjob"
  /\ IF ok
     THEN /\ jobs' = [ jobs EXCEPT ![op.id] = op.vals ]
          /\ scr' = [ scr EXCEPT ![op.s].id = op.id, ![op.s].isCreatingJob = FALSE ]
          /\ pend' = (pend \ {op}) \cup { FetchOp(op.s, op.id) }
     ELSE /\ jobs' = jobs
          /\ scr' = [ scr EXCEPT ![op.s].isCreatingJob = FALSE ]
          /\ pend' = pend \ {op}
  /\ UNCHANGED << now, firstCompletedAt, blobs, customers, nextJob, nextCustomer,
                  nextMedia, leadVars >>

\* a payload that stamps every status
CompletedAtAlways(newStatus) == << now >>

\* payload.completedAt of updateJobStatus
\* variant of the payload that stamps the day only; the clock of the model
\* stays within day 1
CompletedAtDayOnly(newStatus) ==
  IF newStatus = "Completed" THEN << 1 >> ELSE <<>>

CompletedAtFor(newStatus) == IF newStatus = "Completed" THEN << now >> ELSE <<>>

\* the payload of updateJobStatus
StatusPayload(newStatus) ==
  [ NullJob EXCEPT !.status = newStatus, !.completedAt = CompletedAtFor(newStatus) ]

\* the position of a status in the pipeline
StatusIndex(st) == CHOOSE i \in 1..Len(STATUSES) : STATUSES[i] = st

\* variant of the handler that marks the deposit of a completed job paid
updateJobStatusSettlingDeposit(s, newStatus) ==
  /\ MainUi(s)
  /\ ~scr[s].isUpdating
  /\ CanStart(s)
  /\ scr' = [ scr EXCEPT ![s].isUpdating = TRUE ]
  /\ pend' = pend \cup
       { Op(s, "status", scr[s].id, { "status", "completedAt", "isDepositPaid" },
            [ StatusPayload(newStatus) EXCEPT
                !.isDepositPaid =
                  newStatus = "Completed" \/ scr[s].job.isDepositPaid ],
            "none", <<>>) }
  /\ ScreenFrame

\* variant of the handler that lets a job move forward in the pipeline only
updateJobStatusForward(s, newStatus) ==
  /\ MainUi(s)
  /\ ~scr[s].isUpdating
  /\ CanStart(s)
  /\ StatusIndex(newStatus) > StatusIndex(scr[s].job.status)
  /\ scr' = [ scr EXCEPT ![s].isUpdating = TRUE ]
  /\ pend' = pend \cup
       { Op(s, "status", scr[s].id, { "status", "completedAt" },
            StatusPayload(newStatus), "none", <<>>) }
  /\ ScreenFrame

updateJobStatus(s, newStatus) ==
  /\ MainUi(s)
  /\ ~scr[s].isUpdating
  /\ CanStart(s)
  /\ scr' = [ scr EXCEPT ![s].isUpdating = TRUE ]
  /\ pend' = pend \cup
       { Op(s, "status", scr[s].id, { "status", "completedAt" },
            StatusPayload(newStatus), "none", <<>>) }
  /\ ScreenFrame

\* setJob((prev) => prev ? { ...prev, ...fields } : prev)
SetJobFields(job, vals, fields) ==
  IF job.id # 0 THEN MergeFields(job, vals, fields) ELSE job

\* updateDoc(doc(db, 'jobs', id), fields): a merge into an existing document
UpdateDoc(id, vals, fields) ==
  [ jobs EXCEPT ![id] = MergeFields(@, vals, fields \ { "id" }) ]

\* the write of updateJobStatus lands or fails; finally setIsUpdating(false)
StatusLanding(op, ok) ==
  /\ op \in pend /\ op.op = "status"
  /\ ok => jobs[op.id].id # 0
  /\ jobs' = IF ok THEN UpdateDoc(op.id, op.vals, op.fields) ELSE jobs
  /\ scr' = [ scr EXCEPT
       ![op.s].job = IF ok THEN SetJobFields(@, op.vals, op.fields) ELSE @,
       ![op.s].isUpdating = FALSE ]
  /\ pend' = pend \ {op}
  /\ UNCHANGED << now, blobs, customers, nextJob, nextCustomer, nextMedia,
                  leadVars >>

StatusDone(op, ok) ==
  /\ StatusLanding(op, ok)
  /\ UNCHANGED firstCompletedAt

\* the same step where the history of first entries is kept and the clock
\* is read: a write that lands has taken time since updateJobStatus read
\* new Date()
RecordedStatusDone(op, ok) ==
  /\ ok => now > op.at
  /\ StatusLanding(op, ok)
  /\ firstCompletedAt' =
       IF ok /\ op.vals.completedAt # <<>> /\ firstCompletedAt[op.id] = <<>>
       THEN [ firstCompletedAt EXCEPT ![op.id] = op.vals.completedAt ]
       ELSE firstCompletedAt

\* Edit Details: setEditForm({ ...job }); setIsEditingDetails(true)
OpenEditDetails(s) ==
  /\ MainUi(s)
  /\ scr' = [ scr EXCEPT
       ![s].editForm = [ contractAmount |-> scr[s].job.contractAmount,
                         depositAmount |-> scr[s].job.depositAmount ],
       ![s].isEditingDetails = TRUE ]
  /\ UNCHANGED << pend >> /\ ScreenFrame

\* onChangeText of the contract / deposit inputs of the edit form
EditAmounts(s, field, text) ==
  /\ Shown(s) /\ scr[s].isEditingDetails
  /\ scr' = [ scr EXCEPT ![s].editForm[field] = OrZero(ParseAmount(text)) ]
  /\ UNCHANGED << pend >> /\ ScreenFrame

CloseEditDetails(s) ==
  /\ Shown(s) /\ scr[s].isEditingDetails
  /\ scr' = [ scr EXCEPT ![s].isEditingDetails = FALSE ]
  /\ UNCHANGED << pend >> /\ ScreenFrame

\* parseFloat(String(x ?? 0).replace(/[^0-9.]/g, '')) || 0
ReparseAmount(x) == OrZero(ParseAmount(ToText(x)))

\* the ledger formula as each handler writes it
LedgerBalance(contractAmount, depositAmount, isDepositPaid, payments) ==
  contractAmount - (IF isDepositPaid THEN depositAmount ELSE 0) - SumSeq(payments)

\* the financial fields of `updates` in handleSaveDetails
DetailsUpdates(job, editForm) ==
  LET contractAmount == ReparseAmount(editForm.contractAmount)
      depositAmount  == ReparseAmount(editForm.depositAmount)
  IN  [ NullJob EXCEPT
          !.contractAmount = contractAmount,
          !.depositAmount = depositAmount,
          !.isDepositPaid = job.isDepositPaid,
          !.balance = LedgerBalance(contractAmount, depositAmount,
                                    job.isDepositPaid, job.payments) ]

DetailsFields == { "contractAmount", "depositAmount", "isDepositPaid", "balance" }

\* Save of the edit modal (disabled while isUpdating)
handleSaveDetails(s) ==
  /\ Shown(s) /\ scr[s].isEditingDetails
  /\ ~scr[s].isUpdating
  /\ CanStart(s)
  /\ scr' = [ scr EXCEPT ![s].isUpdating = TRUE ]
  /\ pend' = pend \cup
       { Op(s, "details", scr[s].id, DetailsFields,
            DetailsUpdates(scr[s].job, scr[s].editForm), "none", <<>>) }
  /\ ScreenFrame

DetailsDone(op, ok) ==
  /\ op \in pend /\ op.op = "details"
  /\ ok => jobs[op.id].id # 0
  /\ jobs' = IF ok THEN UpdateDoc(op.id, op.vals, op.fields) ELSE jobs
  /\ scr' = [ scr EXCEPT
       ![op.s].job = IF ok THEN SetJobFields(@, op.vals, op.fields) ELSE @,
       ![op.s].isEditingDetails = IF ok THEN FALSE ELSE @,
       ![op.s].alert = IF ok THEN @ ELSE "Could not save changes.",
       ![op.s].isUpdating = FALSE ]
  /\ pend' = pend \ {op}
  /\ UNCHANGED << now, firstCompletedAt, blobs, customers, nextJob, nextCustomer,
                  nextMedia, leadVars >>

\* a toggle that writes isDepositPaid and leaves the balance as it was
DepositUpdatesKeepingBalance(job, newValue) ==
  [ NullJob EXCEPT !.isDepositPaid = newValue, !.balance = job.balance ]

\* newBalance of toggleDepositStatus
DepositUpdates(job, newValue) ==
  [ NullJob EXCEPT
      !.isDepositPaid = newValue,
      !.balance = LedgerBalance(job.contractAmount, job.depositAmount,
                                newValue, job.payments) ]

\* variant of the switch that also clears the deposit amount when the
\* deposit is marked unpaid
toggleDepositClearingAmount(s, newValue) ==
  /\ MainUi(s)
  /\ newValue = ~scr[s].job.isDepositPaid
  /\ ~scr[s].isUpdating
  /\ CanStart(s)
  /\ scr' = [ scr EXCEPT ![s].isUpdating = TRUE ]
  /\ pend' = pend \cup
       { Op(s, "deposit", scr[s].id,
            { "isDepositPaid", "balance", "depositAmount" },
            [ DepositUpdates(scr[s].job, newValue) EXCEPT
                !.depositAmount =
                  IF newValue THEN scr[s].job.depositAmount ELSE 0 ],
            "none", <<>>) }
  /\ ScreenFrame

\* the deposit switch (disabled while isUpdating) hands over the other value
toggleDepositStatus(s, newValue) ==
  /\ MainUi(s)
  /\ newValue = ~scr[s].job.isDepositPaid
  /\ ~scr[s].isUpdating
  /\ CanStart(s)
  /\ scr' = [ scr EXCEPT ![s].isUpdating = TRUE ]
  /\ pend' = pend \cup
       { Op(s, "deposit", scr[s].id, { "isDepositPaid", "balance" },
            DepositUpdates(scr[s].job, newValue), "none", <<>>) }
  /\ ScreenFrame

DepositDone(op, ok) ==
  /\ op \in pend /\ op.op = "deposit"
  /\ ok => jobs[op.id].id # 0
  /\ jobs' = IF ok THEN UpdateDoc(op.id, op.vals, op.fields) ELSE jobs
  /\ scr' = [ scr EXCEPT
       ![op.s].job = IF ok THEN SetJobFields(@, op.vals, op.fields) ELSE @,
       ![op.s].alert = IF ok THEN @ ELSE "Could not update deposit status.",
       ![op.s].isUpdating = FALSE ]
  /\ pend' = pend \ {op}
  /\ UNCHANGED << now, firstCompletedAt, blobs, customers, nextJob, nextCustomer,
                  nextMedia, leadVars >>

\* Add Payment: setIsAddingPayment(true)
OpenAddPayment(s) ==
  /\ MainUi(s)
  /\ scr' = [ scr EXCEPT ![s].isAddingPayment = TRUE ]
  /\ UNCHANGED << pend >> /\ ScreenFrame

SetNewPaymentAmount(s, text) ==
  /\ Shown(s) /\ scr[s].isAddingPayment
  /\ scr' = [ scr EXCEPT ![s].newPaymentAmount = text ]
  /\ UNCHANGED << pend >> /\ ScreenFrame

CloseAddPayment(s) ==
  /\ Shown(s) /\ scr[s].isAddingPayment
  /\ scr' = [ scr EXCEPT ![s].isAddingPayment = FALSE, ![s].newPaymentAmount = <<>> ]
  /\ UNCHANGED << pend >> /\ ScreenFrame

\* the amount handleSavePayment reads from the input
PaymentAmount(text) == ParseAmount(text)

\* updatedPayments and balance of handleSavePayment
PaymentUpdates(job, amount) ==
  LET updatedPayments == Append(job.payments, amount)
  IN  [ NullJob EXCEPT
          !.payments = updatedPayments,
          !.balance = LedgerBalance(job.contractAmount, job.depositAmount,
                                    job.isDepositPaid, updatedPayments) ]

\* variant of Save Payment whose button is not disabled while isUpdating
handleSavePaymentUngated(s) ==
  /\ Shown(s) /\ scr[s].isAddingPayment
  /\ LET amount == PaymentAmount(scr[s].newPaymentAmount)
     IN  IF IsInvalidAmount(amount)
         THEN /\ scr' = [ scr EXCEPT ![s].alert = "Invalid Amount" ]
              /\ pend' = pend
         ELSE /\ Len(scr[s].job.payments) < MaxPayments /\ CanStart(s)
              /\ scr' = [ scr EXCEPT ![s].isUpdating = TRUE ]
              /\ pend' = pend \cup
                   { Op(s, "payment", scr[s].id, { "payments", "balance" },
                        PaymentUpdates(scr[s].job, amount[1]), "none", <<>>) }
  /\ ScreenFrame

\* Save Payment (disabled while isUpdating): an invalid amount raises the
\* alert and returns before setIsUpdating and before any write
handleSavePayment(s) ==
  /\ Shown(s) /\ scr[s].isAddingPayment
  /\ ~scr[s].isUpdating
  /\ LET amount == PaymentAmount(scr[s].newPaymentAmount)
     IN  IF IsInvalidAmount(amount)
         THEN /\ scr' = [ scr EXCEPT ![s].alert = "Invalid Amount" ]
              /\ pend' = pend
         ELSE /\ Len(scr[s].job.payments) < MaxPayments /\ CanStart(s)
              /\ scr' = [ scr EXCEPT ![s].isUpdating = TRUE ]
              /\ pend' = pend \cup
                   { Op(s, "payment", scr[s].id, { "payments", "balance" },
                        PaymentUpdates(scr[s].job, amount[1]), "none", <<>>) }
  /\ ScreenFrame

PaymentDone(op, ok) ==
  /\ op \in pend /\ op.op = "payment"
  /\ ok => jobs[op.id].id # 0
  /\ jobs' = IF ok THEN UpdateDoc(op.id, op.vals, op.fields) ELSE jobs
  /\ scr' = [ scr EXCEPT
       ![op.s].job = IF ok THEN SetJobFields(@, op.vals, op.fields) ELSE @,
       ![op.s].newPaymentAmount = IF ok THEN <<>> ELSE @,
       ![op.s].isAddingPayment = IF ok THEN FALSE ELSE @,
       ![op.s].alert = IF ok THEN @ ELSE "Could not save payment.",
       ![op.s].isUpdating = FALSE ]
  /\ pend' = pend \ {op}
  /\ UNCHANGED << now, firstCompletedAt, blobs, customers, nextJob, nextCustomer,
                  nextMedia, leadVars >>

(***************************************************************************)
(* JobDetailScreen: uploads                                                *)
(***************************************************************************)
\* the JobMedia processAndUploadImage returns; url holds the job whose
\* storage folder (`jobs/${id}/...`) the image went to
JobMediaOf(mediaId, id, photoType) ==
  [ id |-> mediaId, url |-> id,
    category |-> IF photoType = "inspectionPhotos" THEN "inspection" ELSE "install",
    shared |-> FALSE ]

\* newDoc of handleAddDocument
NewDocOf(mediaId, id) ==
  [ id |-> mediaId, url |-> id, type |-> "document",
    isSharedWithCustomer |-> FALSE, name |-> "name" ]

\* arrayUnion(...items): the items not yet in the stored array are appended
RECURSIVE ArrayUnion(_, _)
ArrayUnion(arr, items) ==
  IF items = <<>> THEN arr
  ELSE ArrayUnion(IF \E i \in 1..Len(arr) : arr[i] = Head(items)
                  THEN arr ELSE Append(arr, Head(items)),
                  Tail(items))

\* the images of one handleAddPhoto: one from the camera, n from the gallery
NewMediaArray(first, n, id, photoType) ==
  [ i \in 1..n |-> JobMediaOf(first + i - 1, id, photoType) ]

\* Add Photo (disabled while isUploading), up to the upload of n images
handleAddPhotoTo(limit, s, photoType, n) ==
  /\ MainUi(s)
  /\ ~scr[s].isUploading
  /\ nextMedia + n - 1 <= limit /\ CanStart(s)
  /\ nextMedia' = nextMedia + n
  /\ scr' = [ scr EXCEPT ![s].isUploading = TRUE ]
  /\ pend' = pend \cup
       { Op(s, "photo", scr[s].id, {}, NullJob, photoType,
            NewMediaArray(nextMedia, n, scr[s].id, photoType)) }
  /\ UNCHANGED << now, firstCompletedAt, blobs, storeVars, leadVars >>

handleAddPhoto(s, photoType, n) == handleAddPhotoTo(MaxMedia, s, photoType, n)

\* Add Document (disabled while isUploading), up to the upload
handleAddDocument(s) ==
  /\ MainUi(s)
  /\ ~scr[s].isUploading
  /\ nextMedia <= MaxMedia /\ CanStart(s)
  /\ nextMedia' = nextMedia + 1
  /\ scr' = [ scr EXCEPT ![s].isUploading = TRUE ]
  /\ pend' = pend \cup
       { Op(s, "document", scr[s].id, {}, NullJob, "files",
            << NewDocOf(nextMedia, scr[s].id) >>) }
  /\ UNCHANGED << now, firstCompletedAt, blobs, storeVars, leadVars >>

\* setJob((prev) => prev ? { ...prev, [field]: [...(prev[field] ?? []), ...items] } : prev)
AppendToJob(job, field, items) ==
  IF job.id # 0 THEN [ job EXCEPT ![field] = @ \o items ] ELSE job

\* the upload and the arrayUnion write land and the continuation appends the
\* result to the current snapshot, or one of them fails; finally
\* setIsUploading(false)
UploadResult(op, ok) ==
  /\ op \in pend /\ op.op \in { "photo", "document" }
  /\ ok => jobs[op.id].id # 0
  /\ jobs' = IF ok THEN [ jobs EXCEPT ![op.id][op.addTo] = ArrayUnion(@, op.add) ]
             ELSE jobs
  /\ scr' = [ scr EXCEPT
       ![op.s].job = IF ok THEN AppendToJob(@, op.addTo, op.add) ELSE @,
       ![op.s].alert = IF ok THEN @ ELSE "Upload Failed",
       ![op.s].isUploading = FALSE ]
  /\ pend' = pend \ {op}
  /\ LET ids == { op.add[i].id : i \in 1..Len(op.add) }
     IN  IF ok THEN blobs' = blobs \cup ids
         ELSE \E stored \in SUBSET ids : blobs' = blobs \cup stored
  /\ UNCHANGED << now, firstCompletedAt, customers, nextJob, nextCustomer,
                  nextMedia, leadVars >>

(***************************************************************************)
(* JobDetailScreen: the viewer, the media modal and the file modal         *)
(***************************************************************************)
\* list.map((m) => m.id === item.id ? item : m)
ReplaceById(list, item) ==
  [ k \in 1..Len(list) |-> IF list[k].id = item.id THEN item ELSE list[k] ]

\* the writes of the modals' Saves a screen has under way
EditsOf(s) ==
  { o \in pend : o.s = s /\ o.op \in { "media", "file", "delete" } }

\* the write of a modal's Save; add holds, for the record only, the item as
\* the modal was opened on it (selectedMedia / selectedFile)
EditOp(s, op, id, fields, vals, selected) ==
  [ Op(s, op, id, fields, vals, "none", << selected >>) EXCEPT
      !.seq = Cardinality(EditsOf(s)) + 1 ]

\* pend once the oldest of these writes has settled: the store client sends
\* the writes of a screen in the order of the updateDoc calls and settles
\* them in that order
AfterEdit(op) ==
  { IF o \in EditsOf(op.s) THEN [ o EXCEPT !.seq = @ - 1 ] ELSE o :
      o \in pend \ {op} }

\* a photo thumbnail is tapped: setViewingMediaList(photos); setViewingMediaIdx(i)
OpenViewer(s, photoField, i) ==
  /\ MainUi(s)
  /\ i \in 1..Len(scr[s].job[photoField])
  /\ scr' = [ scr EXCEPT ![s].viewingMediaList = scr[s].job[photoField],
                         ![s].viewingMediaIdx = i ]
  /\ UNCHANGED << pend >> /\ ScreenFrame

\* the viewer, which lies under the media modal, can be touched
ViewerUi(s) ==
  Shown(s) /\ scr[s].viewingMediaIdx # 0 /\ scr[s].selectedMedia = NoMedia

\* the viewer is swiped to another photo of its list (onViewableItemsChanged)
SwipeViewer(s, i) ==
  /\ ViewerUi(s)
  /\ i \in 1..Len(scr[s].viewingMediaList) /\ i # scr[s].viewingMediaIdx
  /\ scr' = [ scr EXCEPT ![s].viewingMediaIdx = i ]
  /\ UNCHANGED << pend >> /\ ScreenFrame

\* Close of the viewer: setViewingMediaIdx(null)
CloseViewer(s) ==
  /\ ViewerUi(s)
  /\ scr' = [ scr EXCEPT ![s].viewingMediaIdx = 0 ]
  /\ UNCHANGED << pend >> /\ ScreenFrame

\* viewingMediaList[viewingMediaIdx]
currentViewingMedia(s) == scr[s].viewingMediaList[scr[s].viewingMediaIdx]

\* Edit of the viewer: openMediaModal(currentViewingMedia)
openMediaModal(s) ==
  /\ ViewerUi(s)
  /\ scr' = [ scr EXCEPT
       ![s].selectedMedia = currentViewingMedia(s),
       ![s].editingMediaShared = currentViewingMedia(s).shared ]
  /\ UNCHANGED << pend >> /\ ScreenFrame

\* the switch of the media modal
SetEditingMediaShared(s, value) ==
  /\ Shown(s) /\ scr[s].selectedMedia # NoMedia
  /\ scr' = [ scr EXCEPT ![s].editingMediaShared = value ]
  /\ UNCHANGED << pend >> /\ ScreenFrame

\* Cancel of the media modal: setSelectedMedia(null)
CancelMediaModal(s) ==
  /\ Shown(s) /\ scr[s].selectedMedia # NoMedia
  /\ scr' = [ scr EXCEPT ![s].selectedMedia = NoMedia ]
  /\ UNCHANGED << pend >> /\ ScreenFrame

\* photoField of handleUpdateMedia and handleDeletePhoto
PhotoFieldOf(media) ==
  IF media.category = "inspection" THEN "inspectionPhotos" ELSE "installPhotos"

\* updatedList of handleUpdateMedia, from the job of the render
UpdatedMediaList(job, selectedMedia, editingMediaShared) ==
  ReplaceById(job[PhotoFieldOf(selectedMedia)],
              [ selectedMedia EXCEPT !.shared = editingMediaShared ])

\* variant of the Save that puts the list into the snapshot before its
\* updateDoc
handleUpdateMediaOptimistic(s) ==
  /\ Shown(s) /\ scr[s].selectedMedia # NoMedia
  /\ CanStart(s)
  /\ LET photoField == PhotoFieldOf(scr[s].selectedMedia)
         updatedList == UpdatedMediaList(scr[s].job, scr[s].selectedMedia,
                                         scr[s].editingMediaShared)
     IN  /\ pend' = pend \cup
               { EditOp(s, "media", scr[s].id, { photoField },
                        [ NullJob EXCEPT ![photoField] = updatedList ],
                        scr[s].selectedMedia) }
         /\ scr' = [ scr EXCEPT ![s].job[photoField] = updatedList ]
  /\ ScreenFrame

\* Save of the media modal, up to its updateDoc
handleUpdateMedia(s) ==
  /\ Shown(s) /\ scr[s].selectedMedia # NoMedia
  /\ CanStart(s)
  /\ LET photoField == PhotoFieldOf(scr[s].selectedMedia)
         updatedList == UpdatedMediaList(scr[s].job, scr[s].selectedMedia,
                                         scr[s].editingMediaShared)
     IN  pend' = pend \cup
           { EditOp(s, "media", scr[s].id, { photoField },
                    [ NullJob EXCEPT ![photoField] = updatedList ],
                    scr[s].selectedMedia) }
  /\ UNCHANGED << scr >> /\ ScreenFrame

\* the write of handleUpdateMedia lands: setJob, setSelectedMedia(null); or
\* it fails: Alert 'Could not update photo.'
MediaDone(op, ok) ==
  /\ op \in pend /\ op.op = "media" /\ op.seq = 1
  /\ ok => jobs[op.id].id # 0
  /\ jobs' = IF ok THEN UpdateDoc(op.id, op.vals, op.fields) ELSE jobs
  /\ scr' = [ scr EXCEPT
       ![op.s].job = IF ok THEN SetJobFields(@, op.vals, op.fields) ELSE @,
       ![op.s].selectedMedia = IF ok THEN NoMedia ELSE @,
       ![op.s].alert = IF ok THEN @ ELSE "Could not update photo." ]
  /\ pend' = AfterEdit(op)
  /\ UNCHANGED << now, firstCompletedAt, blobs, customers, nextJob, nextCustomer,
                  nextMedia, leadVars >>

\* docFiles: the positions of job.files the Documents section shows
docFiles(job) == { i \in 1..Len(job.files) : job.files[i].type = "document" }

\* a document card is long-pressed
openFileModal(s, i) ==
  /\ MainUi(s)
  /\ i \in docFiles(scr[s].job)
  /\ scr' = [ scr EXCEPT
       ![s].selectedFile = scr[s].job.files[i],
       ![s].editingType = scr[s].job.files[i].type,
       ![s].editingShared = scr[s].job.files[i].isSharedWithCustomer ]
  /\ UNCHANGED << pend >> /\ ScreenFrame

\* a category chip of the file modal
SetEditingType(s, t) ==
  /\ Shown(s) /\ scr[s].selectedFile # NoFile
  /\ scr' = [ scr EXCEPT ![s].editingType = t ]
  /\ UNCHANGED << pend >> /\ ScreenFrame

\* the switch of the file modal
SetEditingShared(s, value) ==
  /\ Shown(s) /\ scr[s].selectedFile # NoFile
  /\ scr' = [ scr EXCEPT ![s].editingShared = value ]
  /\ UNCHANGED << pend >> /\ ScreenFrame

\* Cancel of the file modal: setSelectedFile(null)
CancelFileModal(s) ==
  /\ Shown(s) /\ scr[s].selectedFile # NoFile
  /\ scr' = [ scr EXCEPT ![s].selectedFile = NoFile ]
  /\ UNCHANGED << pend >> /\ ScreenFrame

\* updatedFile of handleUpdateFile
UpdatedFile(selectedFile, editingType, editingShared) ==
  [ selectedFile EXCEPT !.type = editingType,
                        !.isSharedWithCustomer = editingShared ]

\* Save of the file modal, up to its updateDoc
handleUpdateFile(s) ==
  /\ Shown(s) /\ scr[s].selectedFile # NoFile
  /\ CanStart(s)
  /\ LET updatedFiles ==
           ReplaceById(scr[s].job.files,
                       UpdatedFile(scr[s].selectedFile, scr[s].editingType,
                                   scr[s].editingShared))
     IN  pend' = pend \cup
           { EditOp(s, "file", scr[s].id, { "files" },
                    [ NullJob EXCEPT !.files = updatedFiles ],
                    scr[s].selectedFile) }
  /\ UNCHANGED << scr >> /\ ScreenFrame

\* the write of handleUpdateFile lands: setJob, setSelectedFile(null); or it
\* fails: Alert 'Could not update file.'
FileDone(op, ok) ==
  /\ op \in pend /\ op.op = "file" /\ op.seq = 1
  /\ ok => jobs[op.id].id # 0
  /\ jobs' = IF ok THEN UpdateDoc(op.id, op.vals, op.fields) ELSE jobs
  /\ scr' = [ scr EXCEPT
       ![op.s].job = IF ok THEN SetJobFields(@, op.vals, op.fields) ELSE @,
       ![op.s].selectedFile = IF ok THEN NoFile ELSE @,
       ![op.s].alert = IF ok THEN @ ELSE "Could not update file." ]
  /\ pend' = AfterEdit(op)
  /\ UNCHANGED << now, firstCompletedAt, blobs, customers, nextJob, nextCustomer,
                  nextMedia, leadVars >>

(***************************************************************************)
(* JobDetailScreen: deleting a photo                                       *)
(***************************************************************************)
\* list.filter((m) => m.id !== media.id)
WithoutId(list, mediaId) == SelectSeq(list, LAMBDA m : m.id # mediaId)

\* a photo thumbnail is long-pressed: handleDeletePhoto(photo) raises the
\* alert whose Delete button holds the photo, the job and the id of this
\* render
handleDeletePhoto(s, photoField, i) ==
  /\ MainUi(s)
  /\ i \in 1..Len(scr[s].job[photoField])
  /\ scr' = [ scr EXCEPT
       ![s].alert = "Delete Photo",
       ![s].deleting = [ media |-> scr[s].job[photoField][i],
                         list |-> scr[s].job[PhotoFieldOf(scr[s].job[photoField][i])],
                         id |-> scr[s].id ] ]
  /\ UNCHANGED << pend >> /\ ScreenFrame

\* Delete of that alert, up to its updateDoc
confirmDeletePhoto(s) ==
  /\ scr[s].alert = "Delete Photo"
  /\ CanStart(s)
  /\ LET media == scr[s].deleting.media
         photoField == PhotoFieldOf(media)
         updatedList == WithoutId(scr[s].deleting.list, media.id)
     IN  pend' = pend \cup
           { EditOp(s, "delete", scr[s].deleting.id, { photoField },
                    [ NullJob EXCEPT ![photoField] = updatedList ], media) }
  /\ scr' = [ scr EXCEPT ![s].alert = "none", ![s].deleting = NoDeleting ]
  /\ ScreenFrame

\* the write of the deletion lands: setJob, and deleteObject is called; or
\* it fails: Alert 'Could not delete photo.'
DeleteDone(op, ok) ==
  /\ op \in pend /\ op.op = "delete" /\ op.seq = 1
  /\ ok => jobs[op.id].id # 0
  /\ jobs' = IF ok THEN UpdateDoc(op.id, op.vals, op.fields) ELSE jobs
  /\ scr' = [ scr EXCEPT
       ![op.s].job = IF ok THEN SetJobFields(@, op.vals, op.fields) ELSE @,
       ![op.s].alert = IF ok THEN @ ELSE "Could not delete photo." ]
  /\ pend' = AfterEdit(op) \cup
       (IF ok THEN { [ op EXCEPT !.op = "blob", !.seq = 0 ] } ELSE {})
  /\ UNCHANGED << now, firstCompletedAt, blobs, customers, nextJob, nextCustomer,
                  nextMedia, leadVars >>

\* a variant in which a failure of deleteObject reaches the outer catch and
\* its Alert
BlobDeleteDoneSurfaced(op, ok) ==
  /\ op \in pend /\ op.op = "blob"
  /\ pend' = pend \ {op}
  /\ blobs' = IF ok THEN blobs \ { op.add[1].id } ELSE blobs
  /\ scr' = [ scr EXCEPT
       ![op.s].alert = IF ok THEN @ ELSE "Could not delete photo." ]
  /\ UNCHANGED << now, firstCompletedAt, storeVars, nextMedia, leadVars >>

\* deleteObject(ref(storage, media.url)) settles: a failure is caught by the
\* inner try and goes to console.warn
BlobDeleteDone(op, ok) ==
  /\ op \in pend /\ op.op = "blob"
  /\ pend' = pend \ {op}
  /\ blobs' = IF ok THEN blobs \ { op.add[1].id } ELSE blobs
  /\ UNCHANGED << now, firstCompletedAt, storeVars, nextMedia, leadVars, scr >>

(***************************************************************************)
(* Next-state relations                                                    *)
(***************************************************************************)
LeadFormNext ==
  \/ \E t \in NameTexts : SetName(t)
  \/ \E a \in AddressTexts : SetAddress(a)
  \/ \E i \in 1..Len(FilteredCustomers) : handleSelectCustomer(FilteredCustomers[i])
  \/ handleClearCustomerSelection

LeadLedgerNext ==
  \/ \E t \in ContractTexts : SetContractAmount(t)
  \/ \E t \in DepositTexts : SetDepositAmount(t)
  \/ formatDollarOnBlur
  \/ \E v \in BOOLEAN : SetDepositPaid(v)
  \/ \E t \in PaymentTexts : SetNewPayment(t)
  \/ addPayment
  \/ \E i \in 1..MaxPayments : RemovePayment(i)

PickerNext ==
  \/ \E c \in CategorySet, v \in BOOLEAN : toggleFolderPermission(c, v)
  \/ \E i \in 1..Len(picker.files), v \in BOOLEAN :
       toggleFilePublic(picker.files[i].id, v)
  \/ \E i \in 1..Len(picker.files) : deleteFile(picker.files[i].id)
  \/ \E c \in CategorySet : pickAndUpload(c)
  \/ \E c \in CategorySet : pickDocument(c)
  \/ \E op \in leadOps : UploadDone(op)
  \/ \E op \in leadOps : UploadFailed(op)
  \/ DismissLeadAlert

SaveNext ==
  \/ handleSave
  \/ \E op \in leadOps, ok \in BOOLEAN : SaveCustomerWrite(op, ok)
  \/ \E op \in leadOps, ok \in BOOLEAN : SaveJobWrite(op, ok)
  \/ DismissLeadAlert
  \/ NewDraft

LeadNext ==
  \/ LeadFormNext
  \/ \E o \in StatusChoices : SetStatus(o)
  \/ LeadLedgerNext
  \/ PickerNext
  \/ SaveNext

ScreenBaseNext(S) ==
  \/ \E s \in S, j \in 1..MaxJobs : OpenJob(s, j)
  \/ \E op \in pend, ok \in BOOLEAN : FetchDone(op, ok)

NavigationNext(S) ==
  \/ \E s \in S, j \in 1..MaxJobs : SwitchJob(s, j)
  \/ \E s \in S : handleCreateAdditionalJob(s)
  \/ \E op \in pend, ok \in BOOLEAN : AddJobDone(op, ok)

StatusNext(S) ==
  \/ \E s \in S, st \in StatusChoices : updateJobStatus(s, st)
  \/ \E op \in pend, ok \in BOOLEAN : StatusDone(op, ok)

DetailsNext(S) ==
  \/ \E s \in S : OpenEditDetails(s)
  \/ \E s \in S, t \in ContractTexts : EditAmounts(s, "contractAmount", t)
  \/ \E s \in S, t \in DepositTexts : EditAmounts(s, "depositAmount", t)
  \/ \E s \in S : CloseEditDetails(s)
  \/ \E s \in S : handleSaveDetails(s)
  \/ \E op \in pend, ok \in BOOLEAN : DetailsDone(op, ok)
  \/ \E s \in S : DismissAlert(s)

DepositNext(S) ==
  \/ \E s \in S, v \in BOOLEAN : toggleDepositStatus(s, v)
  \/ \E op \in pend, ok \in BOOLEAN : DepositDone(op, ok)
  \/ \E s \in S : DismissAlert(s)

PaymentNext(S) ==
  \/ \E s \in S : OpenAddPayment(s)
  \/ \E s \in S, t \in PaymentTexts : SetNewPaymentAmount(s, t)
  \/ \E s \in S : CloseAddPayment(s)
  \/ \E s \in S : handleSavePayment(s)
  \/ \E op \in pend, ok \in BOOLEAN : PaymentDone(op, ok)
  \/ \E s \in S : DismissAlert(s)

LedgerNext(S) ==
  \/ DetailsNext(S)
  \/ DepositNext(S)
  \/ PaymentNext(S)

UploadNext(S) ==
  \/ \E s \in S, f \in PhotoFields, n \in 1..MaxMedia : handleAddPhoto(s, f, n)
  \/ \E s \in S : handleAddDocument(s)
  \/ \E op \in pend, ok \in BOOLEAN : UploadResult(op, ok)
  \/ \E s \in S : DismissAlert(s)

MediaEditNext(S) ==
  \/ \E s \in S, f \in PhotoFields :
       \E i \in 1..Len(scr[s].job[f]) : OpenViewer(s, f, i)
  \/ \E s \in S : \E i \in 1..Len(scr[s].viewingMediaList) : SwipeViewer(s, i)
  \/ \E s \in S : CloseViewer(s)
  \/ \E s \in S : openMediaModal(s)
  \/ \E s \in S, v \in BOOLEAN : SetEditingMediaShared(s, v)
  \/ \E s \in S : CancelMediaModal(s)
  \/ \E s \in S : handleUpdateMedia(s)
  \/ \E op \in pend, ok \in BOOLEAN : MediaDone(op, ok)
  \/ \E s \in S : DismissAlert(s)

FileEditNext(S) ==
  \/ \E s \in S : \E i \in 1..Len(scr[s].job.files) : openFileModal(s, i)
  \/ \E s \in S, t \in FileTypes : SetEditingType(s, t)
  \/ \E s \in S, v \in BOOLEAN : SetEditingShared(s, v)
  \/ \E s \in S : CancelFileModal(s)
  \/ \E s \in S : handleUpdateFile(s)
  \/ \E op \in pend, ok \in BOOLEAN : FileDone(op, ok)
  \/ \E s \in S : DismissAlert(s)

DeleteNext(S) ==
  \/ \E s \in S, f \in PhotoFields :
       \E i \in 1..Len(scr[s].job[f]) : handleDeletePhoto(s, f, i)
  \/ \E s \in S : confirmDeletePhoto(s)
  \/ \E op \in pend, ok \in BOOLEAN : DeleteDone(op, ok)
  \/ \E op \in pend, ok \in BOOLEAN : BlobDeleteDone(op, ok)
  \/ \E s \in S : DismissAlert(s)

ScreenNext(S) ==
  \/ ScreenBaseNext(S)
  \/ NavigationNext(S)
  \/ StatusNext(S)
  \/ LedgerNext(S)
  \/ UploadNext(S)
  \/ MediaEditNext(S)
  \/ FileEditNext(S)
  \/ DeleteNext(S)

Next ==
  \/ Tick
  \/ LeadNext
  \/ ScreenNext(Sessions)

Spec == Init /\ [][Next]_vars

(***************************************************************************)
(* Specifications of the parts of the program                              *)
(***************************************************************************)
\* the draft after a name and an address were typed (SetName, SetAddress)
FilledLead == [ InitLead EXCEPT !.name = << "Z" >>, !.address = "addr" ]

InitFilled ==
  /\ now = 1
  /\ jobs = [ j \in 1..MaxJobs |-> NullJob ]
  /\ customers = InitialCustomers
  /\ nextJob = 1
  /\ nextCustomer = NumInitialCustomers + 1
  /\ nextMedia = 1
  /\ lead = FilledLead
  /\ picker = InitPicker
  /\ leadOps = {}
  /\ scr = [ s \in Sessions |-> InitScreen ]
  /\ pend = {}
  /\ firstCompletedAt = [ j \in 1..MaxJobs |-> <<>> ]
  /\ blobs = {}

\* the draft after an existing customer was selected (handleSelectCustomer)
SelectedLead ==
  [ InitLead EXCEPT
      !.selectedExistingCustomer = InitialCustomers[1].id,
      !.name = Trim(FullName(InitialCustomers[1])),
      !.address = InitialCustomers[1].address ]

InitSelected ==
  /\ now = 1
  /\ jobs = [ j \in 1..MaxJobs |-> NullJob ]
  /\ customers = InitialCustomers
  /\ nextJob = 1
  /\ nextCustomer = NumInitialCustomers + 1
  /\ nextMedia = 1
  /\ lead = SelectedLead
  /\ picker = InitPicker
  /\ leadOps = {}
  /\ scr = [ s \in Sessions |-> InitScreen ]
  /\ pend = {}
  /\ firstCompletedAt = [ j \in 1..MaxJobs |-> <<>> ]
  /\ blobs = {}

\* one draft for an existing customer saved with its ledger, then one job
\* screen working on the ledger
LedgerStep ==
  \/ LeadLedgerNext
  \/ handleSave
  \/ \E op \in leadOps, ok \in BOOLEAN : SaveJobWrite(op, ok)
  \/ DismissLeadAlert
  \/ ScreenBaseNext({1})
  \/ LedgerNext({1})

SpecLedger == InitSelected /\ [][LedgerStep]_vars

(***************************************************************************)
(* The ledger of a job (SpecLedger)                                        *)
(***************************************************************************)
\* the balance the ledger of the record r stands for
BalanceFormula(r) ==
  r.contractAmount - (IF r.isDepositPaid THEN r.depositAmount ELSE 0)
    - SumSeq(r.payments)

LedgerInputs == { "contractAmount", "depositAmount", "isDepositPaid", "payments" }

\* C1: within one session, after the lead save and after every payment,
\* deposit toggle and details edit, landed or failed, the stored balance of
\* every job is contractAmount - (depositAmount if isDepositPaid, else 0) -
\* sum(payments), never clamped; and every write that carries one of these
\* inputs carries the balance recomputed with it.
C1_StoredBalance ==
  /\ \A j \in 1..MaxJobs :
       jobs[j].id # 0 => jobs[j].balance = BalanceFormula(jobs[j])
  /\ \A o \in pend :
       /\ o.fields \cap LedgerInputs # {} => "balance" \in o.fields
       /\ "balance" \in o.fields =>
            o.vals.balance =
              BalanceFormula(MergeFields(scr[o.s].job, o.vals, o.fields))

\* a job screen shows the stored ledger of its job after a payment and with
\* the deposit paid, and the balance is below zero
C1_NegativeBalance ==
  \E j \in 1..MaxJobs :
    /\ jobs[j].id # 0 /\ scr[1].job = jobs[j] /\ pend = {}
    /\ jobs[j].isDepositPaid /\ jobs[j].depositAmount > 0
    /\ Len(jobs[j].payments) >= 1
    /\ jobs[j].balance < 0

\* what the text of an amount input says to its reader is no positive number
DenotesNoPositiveAmount(t) ==
  \/ t # <<>> /\ Head(t) = "-"
  \/ IsInvalidAmount(ParseFloat(t))

\* C3: a payment whose amount is not positive or not a number is refused:
\* Save Payment raises the Invalid Amount alert, starts no write and leaves
\* the stored job and the snapshot as they were.
C3_InvalidAmountRefused ==
  [][ \A s \in Sessions :
        handleSavePayment(s) /\ DenotesNoPositiveAmount(scr[s].newPaymentAmount)
          => /\ scr'[s].alert = "Invalid Amount"
             /\ pend' = pend /\ jobs' = jobs
             /\ scr'[s].job = scr[s].job ]_vars

(***************************************************************************)
(* The status of a job (SpecStatus)                                        *)
(***************************************************************************)
\* a draft saved with a status, then one job screen changing the status of
\* the customer's jobs and adding jobs, while time passes
StatusStep ==
  \/ Tick
  \/ \E o \in StatusChoices : SetStatus(o)
  \/ handleSave
  \/ \E op \in leadOps, ok \in BOOLEAN : SaveCustomerWrite(op, ok)
  \/ \E op \in leadOps, ok \in BOOLEAN : SaveJobWrite(op, ok)
  \/ DismissLeadAlert
  \/ ScreenBaseNext({1})
  \/ NavigationNext({1})
  \/ StatusNext({1})

SpecStatus == InitFilled /\ [][StatusStep]_vars

\* C2: every stored job has one status of the pipeline, and a completedAt
\* exactly when that status is Completed, whether the job came from a lead
\* save, from Add Job or through status changes.
C2_CompletedAtIffCompleted ==
  \A j \in 1..MaxJobs :
    jobs[j].id # 0 =>
      /\ jobs[j].status \in StatusSet
      /\ jobs[j].completedAt # <<>> <=> jobs[j].status = "Completed"

\* C7: a status write to Completed that lands on a job that is Completed
\* and has its completedAt leaves that completedAt as it was.
C7_ReenteringKeepsCompletedAt ==
  [][ \A op \in pend :
        /\ StatusDone(op, TRUE)
        /\ op.vals.status = "Completed"
        /\ jobs[op.id].status = "Completed" /\ jobs[op.id].completedAt # <<>>
        => jobs'[op.id].completedAt = jobs[op.id].completedAt ]_vars

\* C8: a status write to Completed leaves the stored job Completed with
\* completedAt the timestamp of the transition, whatever the status was; a
\* status write from Completed to another status leaves it with that status
\* and no completedAt.
C8_CompletedAtFollowsStatus ==
  [][ \A op \in pend :
        StatusDone(op, TRUE) =>
          /\ op.vals.status = "Completed" =>
               /\ jobs'[op.id].status = "Completed"
               /\ jobs'[op.id].completedAt = << op.at >>
          /\ jobs[op.id].status = "Completed" /\ op.vals.status # "Completed" =>
               /\ jobs'[op.id].status = op.vals.status
               /\ jobs'[op.id].completedAt = <<>> ]_vars

\* a job entered Completed through a status change, time has passed and a
\* change to another status is in flight
C8_LeavingCompleted ==
  \E op \in pend :
    /\ op.op = "status" /\ op.vals.status # "Completed"
    /\ jobs[op.id].status = "Completed"
    /\ jobs[op.id].completedAt # <<>>
    /\ op.at > jobs[op.id].completedAt[1]

(***************************************************************************)
(* The shared flag of the files (SpecMedia)                                *)
(***************************************************************************)
\* the picker of a draft
SpecPicker == InitFilled /\ [][PickerNext]_vars

\* a draft with folder defaults and photos saved, then one job screen
\* uploading to the job
MediaStep ==
  \/ \E c \in CategorySet, v \in BOOLEAN : toggleFolderPermission(c, v)
  \/ \E c \in CategorySet : pickAndUpload(c)
  \/ \E op \in leadOps : UploadDone(op)
  \/ handleSave
  \/ \E op \in leadOps, ok \in BOOLEAN : SaveCustomerWrite(op, ok)
  \/ \E op \in leadOps, ok \in BOOLEAN : SaveJobWrite(op, ok)
  \/ ScreenBaseNext({1})
  \/ UploadNext({1})

SpecMedia == InitFilled /\ [][MediaStep]_vars

\* the folder of the picker that holds the media of a field of the job
\* (categoryToType read backwards)
FolderOfField(field) ==
  IF field = "inspectionPhotos" THEN "Inspection"
  ELSE IF field = "installPhotos" THEN "Install"
  ELSE "Documents"

\* the shared flag of an item of a field of the job
SharedFlagOf(field, item) ==
  IF field = "files" THEN item.isSharedWithCustomer ELSE item.shared

\* C4: a file uploaded with no override gets the folder default recorded for
\* its category as its shared flag: in the draft the default the draft
\* records, on a stored job the default the job records.
C4_UploadTakesFolderDefault ==
  [][ /\ \A op \in leadOps :
           UploadDone(op) =>
             LET f == picker'.files[Len(picker'.files)]
             IN  f.isPublic = DefaultShared(lead'.folderPermissions, f.category)
      /\ \A op \in pend :
           UploadResult(op, TRUE) =>
             \A i \in 1..Len(op.add) :
               SharedFlagOf(op.addTo, op.add[i]) =
                 DefaultShared(jobs[op.id].folderPermissions, FolderOfField(op.addTo))
    ]_vars

\* the shared flags of the files of a list, by file id
SharedFlags(files) ==
  { [ id |-> files[i].id, isPublic |-> files[i].isPublic ] : i \in 1..Len(files) }

\* C9: a switch of a folder default sets that default and changes the shared
\* flag of no file the picker or the draft holds.
C9_FolderToggleKeepsFiles ==
  [][ \A c \in CategorySet, v \in BOOLEAN :
        toggleFolderPermission(c, v) =>
          /\ DefaultShared(picker'.folderPermissions, c) = v
          /\ SharedFlags(picker'.files) = SharedFlags(picker.files)
          /\ SharedFlags(lead'.files) = SharedFlags(lead.files) ]_vars

\* the draft holds a file that is not shared in a folder whose default is
\* now on, in the picker and in the draft
C9_FilesKeepTheirFlags ==
  /\ Len(lead.files) >= 1 /\ lead.files = picker.files
  /\ ~lead.files[1].isPublic
  /\ DefaultShared(picker.folderPermissions, lead.files[1].category)
  /\ DefaultShared(lead.folderPermissions, lead.files[1].category)

(***************************************************************************)
(* Uploads and the switch between the jobs of a customer (SpecSwitch)      *)
(***************************************************************************)
\* a draft saved, then one job screen adding jobs, switching between the
\* jobs of the customer and uploading
SwitchStep ==
  \/ handleSave
  \/ \E op \in leadOps, ok \in BOOLEAN : SaveCustomerWrite(op, ok)
  \/ \E op \in leadOps, ok \in BOOLEAN : SaveJobWrite(op, ok)
  \/ DismissLeadAlert
  \/ ScreenBaseNext({1})
  \/ NavigationNext({1})
  \/ UploadNext({1})

SpecSwitch == InitFilled /\ [][SwitchStep]_vars

\* C5: the result of an upload started on one job that arrives after the
\* screen switched to another job and shows the snapshot of that job is not
\* applied to that snapshot.
C5_LateUploadNotApplied ==
  [][ \A op \in pend :
        /\ UploadResult(op, TRUE)
        /\ scr[op.s].id # op.id
        /\ scr[op.s].job.id = scr[op.s].id
        => scr'[op.s].job = scr[op.s].job ]_vars

(***************************************************************************)
(* Two sessions on the ledger of one job (SpecRace)                        *)
(***************************************************************************)
\* a draft saved with no write failing, then two job screens on it: one
\* adds payments, the other switches the deposit and edits the amounts
RaceStep ==
  \/ handleSave
  \/ \E op \in leadOps : SaveCustomerWrite(op, TRUE)
  \/ \E op \in leadOps : SaveJobWrite(op, TRUE)
  \/ ScreenBaseNext(Sessions)
  \/ PaymentNext({1})
  \/ DepositNext({2})
  \/ DetailsNext({2})

SpecRace == InitFilled /\ [][RaceStep]_vars

\* C6: when the ledger writes of two sessions on one job interleave, then
\* once all of them have landed the stored balance is again contractAmount -
\* (depositAmount if isDepositPaid, else 0) - sum(payments).
C6_InterleavedLedger ==
  pend = {} =>
    \A j \in 1..MaxJobs :
      jobs[j].id # 0 => jobs[j].balance = BalanceFormula(jobs[j])

(***************************************************************************)
(* The customer of a saved lead (SpecLead)                                 *)
(***************************************************************************)
\* drafts with a name, an address and perhaps a selected customer, saved
LeadStep ==
  \/ LeadFormNext
  \/ SaveNext

SpecLead == Init /\ [][LeadStep]_vars

CustomerIds == { customers[i].id : i \in 1..Len(customers) }

\* C10: a save pressed while an existing customer is selected writes no
\* Customer record and stores the job with the selected customer's id; a save
\* pressed with no selection (never made, or cleared) writes one new
\* Customer record and stores the job with the id of that record.
C10_SelectionDecidesCustomer ==
  [][ /\ handleSave /\ lead.selectedExistingCustomer # 0 =>
           \E op \in leadOps' \ leadOps :
             /\ op.phase = "job" /\ op.customer = NoCustomer
             /\ op.job.customerId = lead.selectedExistingCustomer
             /\ op.job.customerId \in CustomerIds
      /\ handleSave /\ lead.selectedExistingCustomer = 0 =>
           \E op \in leadOps' \ leadOps :
             /\ op.phase = "customer"
             /\ op.customer.id # 0 /\ op.customer.id \notin CustomerIds
             /\ op.job.customerId = op.customer.id
      /\ \A op \in leadOps :
           /\ SaveCustomerWrite(op, TRUE) =>
                /\ op.customer.id \notin CustomerIds
                /\ customers' = Append(customers, op.customer)
           /\ SaveJobWrite(op, TRUE) =>
                /\ customers' = customers
                /\ jobs'[op.job.id].customerId = op.job.customerId
                /\ op.job.customerId \in CustomerIds
                /\ op.customer # NoCustomer =>
                     \E i \in NumInitialCustomers + 1 .. Len(customers) :
                       customers[i] = op.customer ]_vars

\* one lead was saved for an existing customer and one for a new customer,
\* and one Customer record was written
C10_ExistingAndNewCustomer ==
  /\ Len(customers) = NumInitialCustomers + 1
  /\ \E j1, j2 \in 1..MaxJobs :
       /\ jobs[j1].id # 0 /\ jobs[j2].id # 0
       /\ jobs[j1].customerId \in 1..NumInitialCustomers
       /\ jobs[j2].customerId = customers[Len(customers)].id


(***************************************************************************)
(* The draft's ledger: adding a payment and removing it again              *)
(***************************************************************************)
\* the draft after the Remove button of payment i
LeadAfterRemove(l, i) == [ l EXCEPT !.payments = RemoveAt(l.payments, i) ]

\* C12: when addPayment accepts the typed amount, the new payment takes the
\* last index of the list, and Remove at that index gives back exactly the
\* ordered payment list and the balance the draft had before addPayment.
C12_AddThenRemoveRestores ==
  [][ ( addPayment /\ ~IsInvalidAmount(ParseAmount(lead.newPayment)) )
      => LET i == Len(lead'.payments)
             back == LeadAfterRemove(lead', i)
         IN  /\ i = Len(lead.payments) + 1
             /\ lead'.payments[i] = ParseAmount(lead.newPayment)[1]
             /\ back.payments = lead.payments
             /\ BalanceOfDraft(back) = BalanceOfDraft(lead) ]_vars

\* a second, different payment has been added behind an earlier one
C12_SecondPaymentAdded ==
  /\ ~lead.done
  /\ Len(lead.payments) = 2
  /\ lead.payments[1] # lead.payments[2]
  /\ lead.newPayment = <<>>

(***************************************************************************)
(* The customer candidates of the name field                               *)
(***************************************************************************)
\* two characters that are the same letter in either case
SameLetter(a, b) ==
  \/ a = b
  \/ { a, b } \in { { "A", "a" }, { "B", "b" }, { "O", "o" }, { "Z", "z" } }

\* text q occurs in text full, letter case ignored
OccursIgnoringCase(q, full) ==
  \E k \in 0..(Len(full) - Len(q)) :
    \A i \in 1..Len(q) : SameLetter(full[k + i], q[i])

\* the positions of the customer list whose first name, blank, last name
\* holds q
MatchingPositions(q) ==
  { i \in 1..Len(customers) : OccursIgnoringCase(q, FullName(customers[i])) }

\* r lists exactly the customers matching q, in the order of the list
ExactlyMatchesInOrder(r, q) ==
  LET M == MatchingPositions(q)
  IN  /\ Len(r) = Cardinality(M)
      /\ \A k \in 1..Len(r) :
           r[k] = customers[CHOOSE i \in M :
                              Cardinality({ j \in M : j <= i }) = k]

IsBlank(q) == \A i \in 1..Len(q) : q[i] = " "

\* C19 as stated: for every name in the field, the candidates are exactly
\* the customers whose first+last name contains it, case ignored, in the
\* order of the customer list.
C19_EveryQueryListsMatches ==
  ~lead.done => ExactlyMatchesInOrder(FilteredCustomers, lead.name)

\* C19 amended: for a name that is not blank, while no customer is selected,
\* the candidates are exactly the customers whose first name, blank, last
\* name contains the name as typed, case ignored, in the order of the
\* customer list; for a blank name or while a customer is selected there
\* are no candidates; typing a name writes neither customers nor jobs.
C19_NonBlankQueryListsMatches ==
  /\ [] ( ~lead.done =>
            IF IsBlank(lead.name) \/ lead.selectedExistingCustomer # 0
            THEN FilteredCustomers = <<>>
            ELSE ExactlyMatchesInOrder(FilteredCustomers, lead.name) )
  /\ [][ (\E t \in NameTexts : SetName(t))
         => UNCHANGED << customers, jobs >> ]_vars

\* a saved draft has added a customer, and a capital letter typed now finds
\* it and an older customer by their small letter, the older one first
C19_CapitalFindsOldAndNew ==
  /\ ~lead.done
  /\ lead.name = << "O" >>
  /\ Len(customers) > NumInitialCustomers
  /\ Len(FilteredCustomers) >= 2
  /\ FilteredCustomers[1].id = InitialCustomers[1].id
  /\ FilteredCustomers[Len(FilteredCustomers)].id > NumInitialCustomers

(***************************************************************************)
(* Amounts typed with a sign (SpecAmounts)                                 *)
(***************************************************************************)
\* amounts as a user may type them, a minus sign in front included
SignedTexts == { << "-", "5" >>, << "1", "0" >> }

\* one draft for an existing customer whose amounts are typed with or
\* without a sign, saved, then one job screen editing the amounts, toggling
\* the deposit and adding payments
AmountStep ==
  \/ \E t \in SignedTexts : SetContractAmount(t)
  \/ \E t \in SignedTexts : SetDepositAmount(t)
  \/ \E v \in BOOLEAN : SetDepositPaid(v)
  \/ handleSave
  \/ \E op \in leadOps : SaveJobWrite(op, TRUE)
  \/ ScreenBaseNext({1})
  \/ \E t \in SignedTexts : EditAmounts(1, "contractAmount", t)
  \/ \E t \in SignedTexts : EditAmounts(1, "depositAmount", t)
  \/ DetailsNext({1})
  \/ DepositNext({1})
  \/ PaymentNext({1})

SpecAmounts == InitSelected /\ [][AmountStep]_vars

\* C20: whatever the lead save, the details edits, the payments and the
\* deposit toggles, the stored contractAmount and depositAmount of every job
\* are zero or more, and so are the amounts of every write under way.
C20_AmountsNeverNegative ==
  /\ \A j \in 1..MaxJobs :
       jobs[j].id # 0 => jobs[j].contractAmount >= 0 /\ jobs[j].depositAmount >= 0
  /\ \A o \in pend :
       /\ "contractAmount" \in o.fields => o.vals.contractAmount >= 0
       /\ "depositAmount" \in o.fields => o.vals.depositAmount >= 0
  /\ \A o \in leadOps :
       o.kind = "save" => o.job.contractAmount >= 0 /\ o.job.depositAmount >= 0

\* a job saved from amounts typed with a minus sign, whose contract amount
\* was then retyped with a minus sign in the edit form and saved
C20_SignedAmountsStored ==
  \E j \in 1..MaxJobs :
    /\ jobs[j].id # 0
    /\ jobs[j].depositAmount = 5 * Scale
    /\ jobs[j].contractAmount = 5 * Scale
    /\ jobs[j].balance < 0
    /\ lead.done

(***************************************************************************)
(* The status pipeline (SpecPipeline)                                      *)
(***************************************************************************)
\* a draft saved with the first or the last status of the pipeline, then one
\* job screen whose status chips are pressed, every status among them
PipelineStep ==
  \/ SetStatus(STATUS_OPTIONS[Len(STATUS_OPTIONS)])
  \/ handleSave
  \/ \E op \in leadOps : SaveJobWrite(op, TRUE)
  \/ ScreenBaseNext({1})
  \/ \E s \in {1}, st \in StatusSet : updateJobStatus(s, st)
  \/ \E op \in pend, ok \in BOOLEAN : StatusDone(op, ok)

SpecPipeline == InitSelected /\ [][PipelineStep]_vars

\* a status write of screen s may be started
StatusChipsLive(s) == MainUi(s) /\ ~scr[s].isUpdating /\ CanStart(s)

\* C15: whenever the status chips of a screen respond, a press on any of the
\* 11 statuses is accepted whatever the job's current status, the same or an
\* earlier one included; the write it starts carries the pressed status, and
\* when the write lands the stored job and the screen's job have it.
C15_AnyStatusToAnyStatus ==
  /\ [] ( \A s \in {1}, target \in StatusSet :
            StatusChipsLive(s) => ENABLED updateJobStatus(s, target) )
  /\ [][ \A s \in {1}, target \in StatusSet :
           updateJobStatus(s, target)
             => \E o \in pend' \ pend :
                  o.op = "status" /\ o.id = scr[s].id /\ o.vals.status = target ]_vars
  /\ [][ \A o \in pend :
           StatusDone(o, TRUE)
             => /\ jobs'[o.id].status = o.vals.status
                /\ scr[o.s].job.id = o.id
                     => scr'[o.s].job.status = o.vals.status ]_vars

\* the job reached the last status through the chips, and a press on the
\* first status was accepted and is under way
C15_BackToFirstStatus ==
  \E o \in pend :
    /\ o.op = "status"
    /\ o.vals.status = STATUSES[1]
    /\ jobs[o.id].status = STATUSES[Len(STATUSES)]
    /\ jobs[o.id].completedAt # <<>>

(***************************************************************************)
(* Leaving and re-entering Completed (SpecReentry)                         *)
(***************************************************************************)
\* a draft for an existing customer saved, then one job screen changing the
\* status back and forth while time passes; every landed status write has
\* taken time, and the first completedAt of each job is remembered
ReentryStep ==
  \/ TickTo(MaxReentryClock)
  \/ handleSave
  \/ \E op \in leadOps : SaveJobWrite(op, TRUE)
  \/ ScreenBaseNext({1})
  \/ \E st \in StatusChoices : updateJobStatus(1, st)
  \/ \E op \in pend, ok \in BOOLEAN : RecordedStatusDone(op, ok)

SpecReentry == InitSelected /\ [][ReentryStep]_vars

\* C16: when a job that entered Completed through a status change and has
\* left it for another status enters Completed again, the completedAt the
\* re-entry stores is a timestamp, and not the one the first entry stored.
C16_ReentryStampsAnew ==
  [][ \A o \in pend :
        ( /\ RecordedStatusDone(o, TRUE)
          /\ o.vals.status = "Completed"
          /\ jobs[o.id].status # "Completed"
          /\ firstCompletedAt[o.id] # <<>> )
        => /\ jobs'[o.id].status = "Completed"
           /\ jobs'[o.id].completedAt # <<>>
           /\ jobs'[o.id].completedAt # firstCompletedAt[o.id] ]_vars

\* a job has been Completed and has left for another status; the write that
\* takes it back to Completed has taken time and may land
C16_ReentryUnderWay ==
  \E o \in pend :
    /\ o.op = "status" /\ o.vals.status = "Completed"
    /\ jobs[o.id].id # 0
    /\ jobs[o.id].status # "Completed" /\ jobs[o.id].completedAt = <<>>
    /\ firstCompletedAt[o.id] # <<>>
    /\ now > o.at

(***************************************************************************)
(* Sharing and recategorizing assets (SpecAssets)                          *)
(***************************************************************************)
\* the files of a draft after an image and a PDF were uploaded to Documents
DraftFiles ==
  << LeadFileOf(3, "image", "Documents"), LeadFileOf(4, "pdf", "Documents") >>

\* the ids of the photos and files of a job document
MediaIdsOf(job) ==
  { (job.inspectionPhotos \o job.installPhotos)[i].id :
      i \in 1..Len(job.inspectionPhotos \o job.installPhotos) }
    \cup { job.files[i].id : i \in 1..Len(job.files) }

\* a job saved earlier for the first customer, to which two inspection
\* photos were added from the gallery
StoredJob ==
  [ NewJobOf(SelectedLead, 1, InitialCustomers[1].id) EXCEPT
      !.inspectionPhotos = NewMediaArray(1, 2, 1, "inspectionPhotos") ]

\* the stored job, and a draft for the same customer with the files given
InitDraftWith(files) ==
  /\ now = 1
  /\ jobs = [ j \in 1..MaxJobs |-> IF j = 1 THEN StoredJob ELSE NullJob ]
  /\ customers = InitialCustomers
  /\ nextJob = 2
  /\ nextCustomer = NumInitialCustomers + 1
  /\ nextMedia = 5
  /\ lead = OnUpdate(SelectedLead, files, InitPicker.folderPermissions)
  /\ picker = [ InitPicker EXCEPT !.files = files ]
  /\ leadOps = {}
  /\ scr = [ s \in Sessions |-> InitScreen ]
  /\ pend = {}
  /\ firstCompletedAt = [ j \in 1..MaxJobs |-> <<>> ]
  /\ blobs = MediaIdsOf(StoredJob) \cup { files[i].id : i \in 1..Len(files) }

InitAssets == InitDraftWith(DraftFiles)

InitFiles == InitDraftWith(<< DraftFiles[2] >>)

\* the switches of the picker's files and of one folder, and one job screen
\* on the stored job: the viewer and the media modal
AssetsStep ==
  \/ \E i \in 1..Len(picker.files), v \in BOOLEAN :
       toggleFilePublic(picker.files[i].id, v)
  \/ \E v \in BOOLEAN : toggleFolderPermission("Documents", v)
  \/ ScreenBaseNext({1})
  \/ MediaEditNext({1})

SpecAssets == InitAssets /\ [][AssetsStep]_vars

\* one folder switch of the picker, the save of the draft, and then one job
\* screen on one of the customer's jobs: the file modal, whose switch is
\* only ever turned on
FilesStep ==
  \/ \E v \in BOOLEAN : toggleFolderPermission("Inspection", v)
  \/ handleSave
  \/ \E op \in leadOps : SaveJobWrite(op, TRUE)
  \/ lead.done /\ ScreenBaseNext({1})
  \/ lead.done /\ \E i \in 1..Len(scr[1].job.files) : openFileModal(1, i)
  \/ \E t \in FileTypes : SetEditingType(1, t)
  \/ SetEditingShared(1, TRUE)
  \/ CancelFileModal(1)
  \/ handleUpdateFile(1)
  \/ \E op \in pend, ok \in BOOLEAN : FileDone(op, ok)

SpecFiles == InitFiles /\ [][FilesStep]_vars

\* list with the shared flag (isPublic, shared) of the item a set to v
WithFlag(list, a, flag, v) ==
  [ k \in 1..Len(list) |->
      IF list[k].id = a THEN [ list[k] EXCEPT ![flag] = v ] ELSE list[k] ]

\* the item of list whose id is a
ItemOf(list, a) == list[CHOOSE k \in 1..Len(list) : list[k].id = a]

\* C17: a press on the switch of a picker file sets the flag of that file
\* and leaves the other files, their order and the folder defaults as they
\* were; a Save of the media modal that lands sets, in the stored job and in
\* the screen's job, the flag of the photo the modal was opened on to the
\* value of the switch and leaves every other photo and file, the order of
\* the lists and the folder defaults as they were.
C17_OnlyThatFlagChanges ==
  /\ [][ \A i \in 1..Len(picker.files), v \in BOOLEAN :
           toggleFilePublic(picker.files[i].id, v)
             => /\ picker'.files = WithFlag(picker.files, picker.files[i].id, "isPublic", v)
                /\ picker'.folderPermissions = picker.folderPermissions
                /\ lead'.files = picker'.files
                /\ lead'.folderPermissions = picker.folderPermissions ]_vars
  /\ [][ \A o \in pend :
           MediaDone(o, TRUE)
             => LET a == o.add[1].id
                    f == PhotoFieldOf(o.add[1])
                    v == ItemOf(o.vals[f], a).shared
                IN  /\ jobs' = [ jobs EXCEPT ![o.id][f] = WithFlag(@, a, "shared", v) ]
                    /\ scr[o.s].job.id = o.id
                         => scr'[o.s].job =
                              [ scr[o.s].job EXCEPT ![f] = WithFlag(@, a, "shared", v) ]
       ]_vars

\* C18: a Save of the file modal that was pressed with another category
\* picked and the switch as the modal showed it when opened, and that on
\* landing changes the stored category of the file, leaves the stored shared
\* flag of the file as it was, whatever the folder default of the new
\* category.
C18_RecategorizingKeepsFlag ==
  [][ \A o \in pend :
        FileDone(o, TRUE)
          => LET a == o.add[1].id
                 before == jobs[o.id].files
                 after == jobs'[o.id].files
             IN  /\ Len(after) = Len(before)
                 /\ \A k \in 1..Len(before) :
                      ( /\ before[k].id = a
                        /\ ItemOf(o.vals.files, a).type # o.add[1].type
                        /\ ItemOf(o.vals.files, a).isSharedWithCustomer
                             = o.add[1].isSharedWithCustomer
                        /\ after[k].type # before[k].type )
                      => /\ after[k].id = a
                         /\ after[k].isSharedWithCustomer
                              = before[k].isSharedWithCustomer ]_vars

(***************************************************************************)
(* The frame of the job screen's writes (SpecFrame)                        *)
(***************************************************************************)
\* the draft of the stored job below: an existing customer, a contract of
\* 20 with a deposit of 5, one PDF in Documents
FrameLead ==
  [ SelectedLead EXCEPT
      !.contractAmount = << "2", "0" >>, !.depositAmount = << "5" >>,
      !.files = << DraftFiles[2] >> ]

\* the job saved from that draft, to which two inspection photos were added
FrameJob ==
  [ NewJobOf(FrameLead, 1, InitialCustomers[1].id) EXCEPT
      !.inspectionPhotos = NewMediaArray(1, 2, 1, "inspectionPhotos") ]

InitFrame ==
  /\ now = 1
  /\ jobs = [ j \in 1..MaxJobs |-> IF j = 1 THEN FrameJob ELSE NullJob ]
  /\ customers = InitialCustomers
  /\ nextJob = 2
  /\ nextCustomer = NumInitialCustomers + 1
  /\ nextMedia = 5
  /\ lead = InitLead
  /\ picker = InitPicker
  /\ leadOps = {}
  /\ scr = [ s \in Sessions |-> InitScreen ]
  /\ pend = {}
  /\ firstCompletedAt = [ j \in 1..MaxJobs |-> <<>> ]
  /\ blobs = MediaIdsOf(FrameJob)

\* one job screen on the stored job: the status chips, the deposit switch
\* and the payments
FrameStep ==
  \/ Tick
  \/ ScreenBaseNext({1})
  \/ StatusNext({1})
  \/ DepositNext({1})
  \/ PaymentNext({1})

SpecFrame == InitFrame /\ [][FrameStep]_vars

\* one job screen on the stored job, with every kind of write it can start:
\* a status chip, the deposit switch, a payment, the edit form, the file
\* modal and, last, the viewer with the media modal (the viewer stays open)
WritesStep ==
  \/ ScreenBaseNext({1})
  \/ updateJobStatus(1, "Completed")
  \/ \E op \in pend, ok \in BOOLEAN : StatusDone(op, ok)
  \/ DepositNext({1})
  \/ OpenAddPayment(1)
  \/ SetNewPaymentAmount(1, << "2", ".", "5" >>)
  \/ handleSavePayment(1)
  \/ \E op \in pend, ok \in BOOLEAN : PaymentDone(op, ok)
  \/ OpenEditDetails(1)
  \/ \E t \in ContractTexts : EditAmounts(1, "contractAmount", t)
  \/ handleSaveDetails(1)
  \/ \E op \in pend, ok \in BOOLEAN : DetailsDone(op, ok)
  \/ OpenViewer(1, "inspectionPhotos", 1)
  \/ openMediaModal(1)
  \/ SetEditingMediaShared(1, TRUE)
  \/ handleUpdateMedia(1)
  \/ \E op \in pend, ok \in BOOLEAN : MediaDone(op, ok)
  \/ \E i \in 1..Len(scr[1].job.files) : openFileModal(1, i)
  \/ SetEditingType(1, "inspection")
  \/ handleUpdateFile(1)
  \/ \E op \in pend, ok \in BOOLEAN : FileDone(op, ok)

SpecWrites == InitFrame /\ [][WritesStep]_vars

\* the fields of a job other than those of F, in the store and in the
\* snapshot of screen s, are after the step what they were before it; no
\* other document changes
KeepsAllBut(F, s, id) ==
  /\ \A f \in JobFields \ F :
       /\ jobs'[id][f] = jobs[id][f]
       /\ scr'[s].job[f] = scr[s].job[f]
  /\ \A j \in (1..MaxJobs) \ { id } : jobs'[j] = jobs[j]
  /\ customers' = customers

\* C13: when the write of the deposit switch lands, the store and the
\* snapshot hold the flag handed over and the balance the ledger formula
\* gives with that flag; depositAmount, contractAmount, payments, status,
\* completedAt, the media lists and every other field are unchanged in both
C13_DepositTouchesFlagAndBalance ==
  [][ \A op \in pend : DepositDone(op, TRUE) =>
        /\ KeepsAllBut({ "isDepositPaid", "balance" }, op.s, op.id)
        /\ \A r \in { jobs[op.id], scr[op.s].job } :
             op.vals.isDepositPaid = ~r.isDepositPaid
        /\ \A r \in { jobs'[op.id], scr'[op.s].job } :
             /\ r.isDepositPaid = op.vals.isDepositPaid
             /\ r.balance = LedgerBalance(r.contractAmount, r.depositAmount,
                                          r.isDepositPaid, r.payments) ]_vars

\* the deposit of a completed job with a payment and photos was marked paid
C13_DepositToggledOnFilledJob ==
  /\ jobs[1].isDepositPaid /\ scr[1].job.isDepositPaid
  /\ jobs[1].payments # <<>>
  /\ jobs[1].depositAmount > 0
  /\ jobs[1].status = "Completed"
  /\ Len(jobs[1].inspectionPhotos) = 2

\* C14: when the write of a status chip lands, the store and the snapshot
\* hold the new status and its completedAt from that one write;
\* contractAmount, depositAmount, isDepositPaid, payments, balance, the media
\* lists, folderPermissions and every other field are unchanged in both
C14_StatusTouchesStatusAndStamp ==
  [][ \A op \in pend : StatusDone(op, TRUE) =>
        /\ KeepsAllBut({ "status", "completedAt" }, op.s, op.id)
        /\ \A r \in { jobs'[op.id], scr'[op.s].job } :
             /\ r.status = op.vals.status
             /\ r.completedAt = op.vals.completedAt ]_vars

\* a job with the deposit paid, a payment and photos was completed and then
\* put into production
C14_StatusChangedOnFilledJob ==
  /\ jobs[1].status = "Production" /\ scr[1].job.status = "Production"
  /\ jobs[1].isDepositPaid
  /\ jobs[1].payments # <<>>
  /\ jobs[1].balance # jobs[1].contractAmount
  /\ Len(jobs[1].inspectionPhotos) = 2
  /\ jobs[1].files # <<>>

\* the write op of a job mutation settles: it lands (ok) or it fails
Settles(op, ok) ==
  \/ StatusDone(op, ok)
  \/ PaymentDone(op, ok)
  \/ DepositDone(op, ok)
  \/ DetailsDone(op, ok)
  \/ MediaDone(op, ok)
  \/ FileDone(op, ok)

\* the step is the end of a load of screen s (fetchData's setJob)
Loads(s) == \E op \in pend, ok \in BOOLEAN : op.s = s /\ FetchDone(op, ok)

\* C11: apart from a load, the snapshot of a screen changes only in the
\* step where a write of that screen has landed, and then the store and
\* the snapshot both hold what was written; the step that starts a write
\* and the step where a write fails leave the snapshot, and the store, as
\* they were
C11_SnapshotFollowsTheWrite ==
  [][ /\ \A s \in Sessions :
           scr'[s].job # scr[s].job /\ ~Loads(s) =>
             \E op \in pend :
               /\ op.s = s /\ Settles(op, TRUE)
               /\ \A f \in op.fields :
                    /\ jobs'[op.id][f] = op.vals[f]
                    /\ scr'[s].job[f] = op.vals[f]
               /\ \A f \in JobFields \ op.fields :
                    scr'[s].job[f] = scr[s].job[f]
      /\ \A op \in pend :
           Settles(op, FALSE) =>
             /\ scr'[op.s].job = scr[op.s].job
             /\ jobs' = jobs ]_vars

\* after a status change and a payment were stored, the write of a photo's
\* switch has failed and the snapshot is the stored job
C11_FailedAfterStoredWrites ==
  /\ scr[1].alert = "Could not update photo."
  /\ scr[1].selectedMedia # NoMedia /\ scr[1].editingMediaShared
  /\ scr[1].job = jobs[1]
  /\ jobs[1].status = "Completed"
  /\ jobs[1].payments # <<>>
  /\ \A k \in 1..Len(jobs[1].inspectionPhotos) : ~jobs[1].inspectionPhotos[k].shared

(***************************************************************************)
(* The gate of the status and ledger writes (SpecWrites)                   *)
(***************************************************************************)
\* the status and ledger writes screen s has in flight
LedgerWritesOf(s) ==
  { o \in pend : o.s = s /\ o.op \in { "status", "deposit", "payment", "details" } }

\* one of the four entry points of screen s can be used
LedgerEntryOpen(s) ==
  \/ ENABLED (\E st \in StatusChoices : updateJobStatus(s, st))
  \/ ENABLED (\E v \in BOOLEAN : toggleDepositStatus(s, v))
  \/ ENABLED handleSavePayment(s)
  \/ ENABLED handleSaveDetails(s)

\* C30: a screen has at most one status/ledger write in flight, and has one
\* exactly while isUpdating; while isUpdating none of the four entry points
\* can be used; the balance a ledger write in flight carries is the ledger
\* formula over the snapshot as the last completed write left it
C30_OneLedgerWriteInFlight ==
  \A s \in Sessions :
    /\ Cardinality(LedgerWritesOf(s)) <= 1
    /\ scr[s].isUpdating <=> LedgerWritesOf(s) # {}
    /\ scr[s].isUpdating => ~LedgerEntryOpen(s)
    /\ \A o \in LedgerWritesOf(s) :
         LET j == scr[s].job
         IN  /\ o.op = "deposit" =>
                  o.vals = DepositUpdates(j, o.vals.isDepositPaid)
             /\ o.op = "payment" =>
                  /\ SubSeq(o.vals.payments, 1, Len(j.payments)) = j.payments
                  /\ Len(o.vals.payments) = Len(j.payments) + 1
                  /\ o.vals.balance =
                       LedgerBalance(j.contractAmount, j.depositAmount,
                                     j.isDepositPaid, o.vals.payments)
             /\ o.op = "details" =>
                  o.vals.balance =
                    LedgerBalance(o.vals.contractAmount, o.vals.depositAmount,
                                  j.isDepositPaid, j.payments)

\* a payment is being written after a status change and a deposit switch
\* were completed, with the payment modal still open
C30_WriteAfterCompletedWrites ==
  /\ scr[1].isUpdating /\ scr[1].isAddingPayment
  /\ \E o \in pend : o.s = 1 /\ o.op = "payment"
  /\ scr[1].job.status = "Completed"
  /\ scr[1].job.isDepositPaid

(***************************************************************************)
(* Failed writes of the job screen (SpecWrites)                            *)
(***************************************************************************)
\* C21: when a write of the job screen fails (a status change, a payment,
\* the deposit switch, the edit form, a photo's or a file's edit, the
\* record of an upload), the step raises an alert on that screen, and the
\* write is gone from the writes in flight with none put in its place
C21_FailedWriteIsShown ==
  [][ \A op \in pend :
        Settles(op, FALSE) \/ UploadResult(op, FALSE) =>
          /\ scr'[op.s].alert # "none"
          /\ Cardinality(pend') = Cardinality(pend) - 1
          /\ \A o \in pend' : o.op = op.op => o.at <= op.at ]_vars

(***************************************************************************)
(* Failed saves of a lead (SpecLead, SpecRetry)                            *)
(***************************************************************************)
\* what the screen shows after a save in which nothing was written: the
\* alert of the catch when the customer write itself is rejected
NothingWrittenAlert == "SAVE FAILED"

\* C22: when the job write of a save fails after the customer write of the
\* same save has landed, the screen shows something else than it shows
\* after a save in which nothing was written
C22_OrphanFailureIsDistinct ==
  [][ \A op \in leadOps :
        SaveJobWrite(op, FALSE) /\ op.customer.id # 0 =>
          lead'.alert # NothingWrittenAlert ]_vars

\* one draft: the form, Save and its writes, the alert; no later draft
RetryStep ==
  \/ LeadFormNext
  \/ handleSave
  \/ \E op \in leadOps, ok \in BOOLEAN : SaveCustomerWrite(op, ok)
  \/ \E op \in leadOps, ok \in BOOLEAN : SaveJobWrite(op, ok)
  \/ DismissLeadAlert

SpecRetry == Init /\ [][RetryStep]_vars

\* C28: the saves of one draft add at most one Customer record to the store
C28_AtMostOneCustomerPerDraft ==
  Len(customers) <= NumInitialCustomers + 1

(***************************************************************************)
(* Uploads of the draft that overlap other changes (SpecDraft, SpecPicker) *)
(***************************************************************************)
\* the picker of one draft, where up to MaxDraftFiles photos are picked
DraftStep ==
  \/ \E c \in CategorySet : StartUploadTo(MaxDraftFiles, c, "image")
  \/ \E op \in leadOps : UploadDone(op)
  \/ \E op \in leadOps : UploadFailed(op)
  \/ \E i \in 1..Len(picker.files), v \in BOOLEAN :
       toggleFilePublic(picker.files[i].id, v)
  \/ \E i \in 1..Len(picker.files) : deleteFile(picker.files[i].id)
  \/ DismissLeadAlert

SpecDraft == InitFilled /\ [][DraftStep]_vars

\* C26: an upload that completes adds its file to the list as the adds,
\* deletes and switches completed so far have left it, and hands that list
\* to onUpdate: every file of the list stays as it is, none that was deleted
\* is back
C26_UploadExtendsCurrentList ==
  [][ \A op \in leadOps :
        UploadDone(op) =>
          /\ Len(picker'.files) = Len(picker.files) + 1
          /\ SubSeq(picker'.files, 1, Len(picker.files)) = picker.files
          /\ picker'.files[Len(picker'.files)].id = op.file.id
          /\ lead'.files = picker'.files ]_vars

\* C27: an upload that completes hands to onUpdate the folder defaults the
\* picker holds then
C27_UploadKeepsFolderDefaults ==
  [][ \A op \in leadOps :
        UploadDone(op) =>
          /\ picker'.folderPermissions = picker.folderPermissions
          /\ lead'.folderPermissions = picker'.folderPermissions ]_vars

(***************************************************************************)
(* The names of documents (SpecFiles)                                      *)
(***************************************************************************)
\* C24: every file of type document stored on a job has a name
C24_DocumentsHaveNames ==
  \A j \in 1..MaxJobs :
    \A i \in 1..Len(jobs[j].files) :
      jobs[j].files[i].type = "document" => jobs[j].files[i].name # ""

(***************************************************************************)
(* The route of the job screen (SpecRoute)                                 *)
(***************************************************************************)
\* one job screen on the jobs of one customer: Add Job, the project pills,
\* the status chips; every load finds its document
RouteStep ==
  \/ \E j \in 1..MaxJobs : OpenJob(1, j)
  \/ \E op \in pend : FetchDone(op, TRUE)
  \/ NavigationNext({1})
  \/ StatusNext({1})

SpecRoute == InitFrame /\ [][RouteStep]_vars

\* C29: when no load and no write of a screen is pending, its snapshot is
\* the stored document of the job its route names
C29_SnapshotIsRouteJob ==
  \A s \in Sessions :
    scr[s].id # 0 /\ PendingOf(s) = {} => scr[s].job = jobs[scr[s].id]

(***************************************************************************)
(* The photos of a stored job (SpecPhotos, SpecDelete)                     *)
(***************************************************************************)
\* one job screen on the stored job: a photo is added while the first photo
\* is viewed and its switch saved, or the second photo is deleted
PhotosStep ==
  \/ ScreenBaseNext({1})
  \/ handleAddPhotoTo(MaxStoredMedia, 1, "inspectionPhotos", 1)
  \/ \E op \in pend, ok \in BOOLEAN : UploadResult(op, ok)
  \/ OpenViewer(1, "inspectionPhotos", 1)
  \/ openMediaModal(1)
  \/ SetEditingMediaShared(1, TRUE)
  \/ handleUpdateMedia(1)
  \/ \E op \in pend, ok \in BOOLEAN : MediaDone(op, ok)
  \/ handleDeletePhoto(1, "inspectionPhotos", 2)
  \/ confirmDeletePhoto(1)
  \/ \E op \in pend, ok \in BOOLEAN : DeleteDone(op, ok)
  \/ \E op \in pend, ok \in BOOLEAN : BlobDeleteDone(op, ok)
  \/ DismissAlert(1)

SpecPhotos == InitFrame /\ [][PhotosStep]_vars

\* one job screen on the stored job, where photos are deleted
DeleteStep ==
  \/ ScreenBaseNext({1})
  \/ DeleteNext({1})

SpecDelete == InitFrame /\ [][DeleteStep]_vars

\* the ids of the items of a list
IdsOf(list) == { list[i].id : i \in 1..Len(list) }

\* C25: when the write of a photo's switch or of a deletion lands, every
\* photo of the stored list other than the one deleted is still in the
\* stored list
C25_StoredPhotosStay ==
  [][ \A op \in pend :
        MediaDone(op, TRUE) \/ DeleteDone(op, TRUE) =>
          \A f \in op.fields :
            IdsOf(jobs[op.id][f])
              \ (IF op.op = "delete" THEN { op.add[1].id } ELSE {})
              \subseteq IdsOf(jobs'[op.id][f]) ]_vars


(***************************************************************************)
(* C23 (SpecDelete): the record goes although the stored object stays      *)
(***************************************************************************)
\* C23: when the write of a deletion lands, the deleted photo is in neither
\* the stored list nor the snapshot of the screen and deleteObject is
\* called; when deleteObject fails, the stored job and the screen (its
\* snapshot and its alert) stay as they are and the object stays stored
C23_RecordGoesBlobFailureSilent ==
  [][ \A op \in pend :
        /\ DeleteDone(op, TRUE) =>
              /\ \A f \in op.fields :
                    /\ op.add[1].id \notin IdsOf(jobs'[op.id][f])
                    /\ op.add[1].id \notin IdsOf(scr'[op.s].job[f])
              /\ \E b \in pend' : b.op = "blob" /\ b.add = op.add
              /\ blobs' = blobs
        /\ BlobDeleteDone(op, FALSE) =>
              /\ jobs' = jobs
              /\ scr' = scr
              /\ blobs' = blobs ]_vars

\* the second photo was deleted and deleteObject failed: the record is in
\* neither list, the object is still stored and nothing is shown
C23_RecordGoneObjectKept ==
  /\ scr[1].id = FrameJob.id
  /\ pend = {}
  /\ scr[1].alert = "none"
  /\ FrameJob.inspectionPhotos[2].id \notin IdsOf(jobs[FrameJob.id].inspectionPhotos)
  /\ FrameJob.inspectionPhotos[2].id \notin IdsOf(scr[1].job.inspectionPhotos)
  /\ FrameJob.inspectionPhotos[2].id \in blobs

=========================================================================
